---- MODULE Spec2Model ----
(***************************************************************************)
(* Weather bot: the cache-backed fetch workflows of weather.py and the     *)
(* notification scheduler of notification_scheduler.py (with the user      *)
(* table of user_manager.py and the handlers of bot.py that drive it).     *)
(*                                                                         *)
(* Time is the wall clock in minutes.  Strings whose characters matter     *)
(* (city names, "HH:MM" times, job tags) are sequences of one-character    *)
(* strings.  Coordinates are integers in thousandths of a degree.          *)
(***************************************************************************)
EXTENDS Integers, Sequences, FiniteSets, TLC

VARIABLES
    clock,      \* datetime.now(), minutes
    store,      \* the four cache files of weather.py: file -> table (key -> entry)
    wf,         \* per caller: the workflow invocation in progress / last finished
    result,     \* per caller: what the last finished workflow returned and printed
    runs,       \* workflow invocations started so far
    focus,      \* the cache file whose workflows this behaviour exercises
    puts,       \* history: key -> payload and time of the last entry a workflow stored
                \* (wf[c].started and wf[c].prior record the clock and puts[key] at the call)
    users,      \* cache/users.json: the persisted user table, in insertion order
    jobs,       \* schedule.jobs: the registered jobs, in registration order
    is_running, \* NotificationScheduler.is_running
    threads,    \* the run_scheduler threads started so far
    attempts,   \* history: <<user, time of day>> -> calls of send_weather_notification
    deliveries, \* history: <<user, time of day>> -> how its last delivery went
    occ,        \* history: <<user, time of day>> -> what became of today's occurrence
    ops,        \* management operations, requests or updates performed so far
    lastOp,     \* history: the reschedule_user_notifications or add_regular_notification
                \* call that has just returned
    city_selection_data, \* bot.city_selection_data: user -> the candidate list shown to it
    served,     \* history: user -> the place its last request went on with
    currency_file, \* cache/currency.json: <<>> (no file) or <<base currency -> entry>>
    currency_log,  \* history: the update_currency_rates call that has just ended
    file_state, \* the condition of cache/*.json, users.json and scheduled_notifications.json
    load_log,   \* history: the operation that has just loaded one of these files
    pending,    \* per thread, the users.json update it is in the middle of
    probe       \* history: two key computations and the keys they gave

cacheVars == <<store, wf, result, runs, focus, puts>>

schedVars == <<users, jobs, is_running, threads, attempts, deliveries, occ, ops, lastOp>>

sideVars == <<city_selection_data, served, currency_file, currency_log>>

moreVars == <<pending, probe>>

auxVars == <<file_state, load_log, moreVars>>

-----------------------------------------------------------------------------
(* Bounds of the model *)

MaxRuns == 3            \* workflow invocations explored per behaviour
MaxClockSteps == 2      \* clock advances explored per behaviour
MaxOps == 3             \* management operations explored per behaviour
MaxThreads == 2         \* polling threads started per behaviour
MaxTicks == 3           \* minutes explored per behaviour, from 07:59

(* Program constants *)

TTL_MINUTES == 180              \* timedelta(hours=3)
MAX_RETRIES == 3                \* max_retries: int = 3
COUNT_3_HOURS_FORECAST == 40
COUNT_DAILY_FORECAST == 7
TARGET_HOUR == 12

-----------------------------------------------------------------------------
(* Strings *)

LowerChar(ch) ==
    CASE ch = "U" -> "u"
      [] ch = "F" -> "f"
      [] ch = "A" -> "a"
      [] ch = "R" -> "r"
      [] OTHER -> ch

Lower(s) == [i \in 1..Len(s) |-> LowerChar(s[i])]

Abs(x) == IF x < 0 THEN -x ELSE x

\* f"{x:.2f}" of a coordinate given in thousandths: sign and hundredths.
\* The sign is kept apart because -0.001 prints as "-0.00".
Fmt2(x) == [neg |-> x < 0, h |-> (Abs(x) + 5) \div 10]

-----------------------------------------------------------------------------
(* Requests *)

Callers == {"interactive", "scheduler"}

Files == {"geocoding", "current", "forecast", "air_pollution"}

Kinds == {"coords_by_city", "city_by_coords", "current", "hourly", "daily", "air"}

FileOf(kind) ==
    CASE kind \in {"coords_by_city", "city_by_coords"} -> "geocoding"
      [] kind = "current" -> "current"
      [] kind \in {"hourly", "daily"} -> "forecast"
      [] OTHER -> "air_pollution"

Cities == { <<"U","f","a">>, <<"u","f","a">> }

Coords == { <<54738, 55972>>, <<-22907, -43173>> }

Subjects(kind) == IF kind = "coords_by_city" THEN Cities ELSE Coords

\* An optional argument is <<>> (None) or <<v>>; a city is a string, and
\* `if city:` is false for None and for the empty string alike.
get_cache_key(city, lat, lon) ==
    IF city # <<>>
    THEN <<"city", Lower(city)>>
    ELSE IF lat # <<>> /\ lon # <<>>
         THEN <<"coords", Fmt2(lat[1]), Fmt2(lon[1])>>
         ELSE <<>>

KeyOf(kind, subj) ==
    CASE kind = "coords_by_city" -> get_cache_key(subj, <<>>, <<>>)
      [] kind \in {"city_by_coords", "current"} ->
            get_cache_key(<<>>, <<subj[1]>>, <<subj[2]>>)
      [] kind = "hourly" -> <<"hourly", Fmt2(subj[1]), Fmt2(subj[2]), COUNT_3_HOURS_FORECAST>>
      [] kind = "daily" -> <<"daily", Fmt2(subj[1]), Fmt2(subj[2]), COUNT_DAILY_FORECAST>>
      [] OTHER -> <<"air_pollution", Fmt2(subj[1]), Fmt2(subj[2])>>

-----------------------------------------------------------------------------
(* Cache files *)

EmptyTable == <<>>

Put(table, key, entry) ==
    [k \in (DOMAIN table) \cup {key} |-> IF k = key THEN entry ELSE table[k]]

\* Variant of is_cache_valid: an entry of exactly the TTL still counts as valid.
is_cache_valid_inclusive(cache_entry, now) ==
    IF cache_entry.fetched_at = <<>>
    THEN FALSE
    ELSE now - cache_entry.fetched_at[1] <= TTL_MINUTES

\* An entry is [fetched_at, data]; fetched_at is <<t>> for a timestamp that
\* parses to clock value t and <<>> when the field is missing or does not
\* parse.  (The entry's city/lat/lon fields are written and never read.)
is_cache_valid(cache_entry, now) ==
    IF cache_entry.fetched_at = <<>>
    THEN FALSE
    ELSE now - cache_entry.fetched_at[1] < TTL_MINUTES

load_cache(file) == store[file]

-----------------------------------------------------------------------------
(* Upstream answers *)

\* What one requests.get can end in.
Transient == {"rate_limit", "timeout", "connection_error"}
NonTransient == {"http_error", "malformed"}

\* Geocoding candidates as the API returns them.
CandA == [name |-> "Ufa", lat |-> 54738, lon |-> 55972,
          has_local_names |-> TRUE, local_names |-> {"ru", "en", "de"}]
CandB == [name |-> "Ufa", lat |-> 41040, lon |-> -83645,
          has_local_names |-> FALSE, local_names |-> {}]

\* 3-hour forecast samples, [day, hour] of datetime.fromtimestamp(dt).
ForecastA == << [day |-> 1, hour |-> 9], [day |-> 1, hour |-> 12],
                [day |-> 2, hour |-> 9], [day |-> 2, hour |-> 15] >>
ForecastB == << [day |-> 1, hour |-> 21], [day |-> 2, hour |-> 0] >>

ErrorBody == [cod |-> "401", message |-> "Invalid API key"]

\* The JSON bodies an HTTP 200 of each endpoint can carry in the model.
\* shape tells a JSON array from a JSON object.
Bodies(kind) ==
    CASE kind = "coords_by_city" ->
            { [shape |-> "list", v |-> l] : l \in { <<>>, <<CandA>>, <<CandB>>, <<CandA, CandB>> } }
            \cup { [shape |-> "dict", v |-> ErrorBody] }
      [] kind = "city_by_coords" ->
            { [shape |-> "list", v |-> l] : l \in { <<>>, <<CandA>>, <<CandB>> } }
            \cup { [shape |-> "dict", v |-> ErrorBody] }
      [] kind = "current" ->
            { [shape |-> "dict", v |-> [cod |-> "int200", name |-> n]] : n \in {"w1", "w2"} }
            \cup { [shape |-> "dict", v |-> [cod |-> "str200", name |-> "w1"]],
                   [shape |-> "dict", v |-> ErrorBody] }
      [] kind \in {"hourly", "daily"} ->
            { [shape |-> "dict", v |-> [cod |-> "str200", city |-> "Ufa", list |-> l]] :
                    l \in {ForecastA, ForecastB} }
            \cup { [shape |-> "dict", v |-> ErrorBody] }
      [] OTHER ->
            { [shape |-> "dict", v |-> [list |-> a]] : a \in {"a1", "a2"} }
            \cup { [shape |-> "dict", v |-> <<>>], [shape |-> "dict", v |-> ErrorBody] }

Outcomes(kind) ==
    { [status |-> st, body |-> [shape |-> "dict", v |-> <<>>]] : st \in Transient \cup NonTransient }
    \cup { [status |-> "ok", body |-> b] : b \in Bodies(kind) }

\* dict.get(field) with None written "None"
Get(d, field) == IF field \in DOMAIN d THEN d[field] ELSE "None"

\* len(x) of a JSON array or object
PyLen(x) == Cardinality(DOMAIN x)

-----------------------------------------------------------------------------
(* Payload transformations *)

filter_local_names(data) ==
    IF data.has_local_names
    THEN [data EXCEPT !.local_names = data.local_names \cap {"ru", "en"}]
    ELSE data

\* The sample of date d closest to 12:00; `hour_diff < min_diff` keeps the
\* first of two equally close samples.
BestForDate(forecasts, d) ==
    LET same == { j \in 1..Len(forecasts) : forecasts[j].day = d }
        diff(j) == Abs(forecasts[j].hour - TARGET_HOUR)
        best == CHOOSE j \in same :
                    \A k \in same : diff(j) < diff(k) \/ (diff(j) = diff(k) /\ j <= k)
    IN forecasts[best]

RECURSIVE DailyLoop(_, _, _, _)
DailyLoop(forecasts, i, current_date, acc) ==
    IF i > Len(forecasts)
    THEN acc
    ELSE IF forecasts[i].day # current_date
         THEN LET acc2 == Append(acc, BestForDate(forecasts, forecasts[i].day))
              IN IF Len(acc2) >= COUNT_DAILY_FORECAST
                 THEN acc2
                 ELSE DailyLoop(forecasts, i + 1, forecasts[i].day, acc2)
         ELSE DailyLoop(forecasts, i + 1, current_date, acc)

DailyData(data) ==
    [city |-> Get(data, "city"), list |-> DailyLoop(data.list, 1, 0, <<>>)]

-----------------------------------------------------------------------------
(* make_api_request_with_retry, one iteration of its loop per step *)

IdleWf ==
    [pc |-> "idle", kind |-> "none", subj |-> <<>>, key |-> <<>>, cache |-> EmptyTable,
     started |-> 0, prior |-> <<>>, attempt |-> 0, calls |-> 0, sleeps |-> <<>>,
     transients |-> 0, last |-> "none", disk |-> "none",
     fetched |-> [success |-> FALSE, data |-> [none |-> TRUE]]]

NoResult ==
    [status |-> "none", path |-> "none", printed |-> "none", value |-> [none |-> TRUE], at |-> 0]

ExhaustedError(status) ==
    CASE status = "rate_limit" -> [error |-> "Rate limit exceeded after retries"]
      [] status = "timeout" -> [error |-> "Request timeout after retries"]
      [] OTHER -> [error |-> "Connection failed after retries"]

\* Variant of RetryStep: one retry too many (`attempt < max_retries`).
RetryStepExtraAttempt(w, out) ==
    LET w1 == [w EXCEPT !.calls = @ + 1, !.last = out.status,
                        !.transients = IF out.status \in Transient THEN @ + 1 ELSE @]
    IN  IF out.status \in Transient
        THEN IF w.attempt < MAX_RETRIES
             THEN [w1 EXCEPT !.sleeps = Append(@, 2 ^ w.attempt), !.attempt = @ + 1]
             ELSE [w1 EXCEPT !.pc = "fetched",
                             !.fetched = [success |-> FALSE, data |-> ExhaustedError(out.status)]]
        ELSE IF out.status \in NonTransient
             THEN [w1 EXCEPT !.pc = "fetched",
                             !.fetched = [success |-> FALSE, data |-> [error |-> "Request failed"]]]
             ELSE [w1 EXCEPT !.pc = "fetched",
                             !.fetched = [success |-> TRUE, data |-> out.body]]

\* The state of the retry loop after the iteration `w.attempt` met `out`.
RetryStep(w, out) ==
    LET w1 == [w EXCEPT !.calls = @ + 1, !.last = out.status,
                        !.transients = IF out.status \in Transient THEN @ + 1 ELSE @]
    IN  IF out.status \in Transient
        THEN IF w.attempt < MAX_RETRIES - 1
             THEN [w1 EXCEPT !.sleeps = Append(@, 2 ^ w.attempt), !.attempt = @ + 1]
             ELSE [w1 EXCEPT !.pc = "fetched",
                             !.fetched = [success |-> FALSE, data |-> ExhaustedError(out.status)]]
        ELSE IF out.status \in NonTransient
             THEN [w1 EXCEPT !.pc = "fetched",
                             !.fetched = [success |-> FALSE, data |-> [error |-> "Request failed"]]]
             ELSE [w1 EXCEPT !.pc = "fetched",
                             !.fetched = [success |-> TRUE, data |-> out.body]]

-----------------------------------------------------------------------------
(* The get-or-fetch workflows: what each does once the fetcher has returned *)

Returned(path, printed, value) ==
    [status |-> "returned", path |-> path, printed |-> printed, value |-> value,
     write |-> FALSE]

Raised(exc) ==
    [status |-> "raised", path |-> "raised", printed |-> "none",
     value |-> [exception |-> exc], write |-> FALSE]

Fresh(value) ==
    [status |-> "returned", path |-> "fresh", printed |-> "none", value |-> value,
     write |-> TRUE]

AskConsole ==
    [status |-> "choose", path |-> "choose", printed |-> "candidates",
     value |-> [none |-> TRUE], write |-> FALSE]

\* Variant of OnFailure: falls back to the cache only for an entry within the TTL.
OnFailureOnlyValid(w) ==
    IF w.key \in DOMAIN w.cache /\ is_cache_valid(w.cache[w.key], w.started)
    THEN Returned("stale", "stale", w.cache[w.key].data)
    ELSE Returned("fetch_error", "none", w.fetched.data)

\* Variant of OnFailure: no fallback, the fetcher's error is always returned.
OnFailureNoFallback(w) == Returned("fetch_error", "none", w.fetched.data)

\* `if not success:` of every workflow
OnFailure(w) ==
    IF w.key \in DOMAIN w.cache
    THEN Returned("stale", "stale", w.cache[w.key].data)
    ELSE Returned("fetch_error", "none", w.fetched.data)

ApiError(data, default) ==
    Returned("api_error", "none",
             [error |-> IF "message" \in DOMAIN data THEN data.message ELSE default,
              status_code |-> Get(data, "cod")])

\* NotFound that also stores the error under the key.
NotFoundStored(msg) == [Returned("empty", "none", [error |-> msg]) EXCEPT !.write = TRUE]

\* The answer to an upstream reply that holds no candidate.
NotFound(msg) == Returned("empty", "none", [error |-> msg])

AfterCoordsByCity(w) ==
    LET geo == w.fetched.data
    IN  IF ~w.fetched.success THEN OnFailure(w)
        ELSE IF PyLen(geo.v) = 0 THEN NotFound("City not found or geocoding error")
        ELSE IF PyLen(geo.v) > 1
             THEN IF geo.shape = "list" THEN AskConsole ELSE Raised("AttributeError")
             ELSE IF geo.shape = "list"
                  THEN Fresh(filter_local_names(geo.v[1]))
                  ELSE Raised("KeyError")

AfterCityByCoords(w) ==
    LET data == w.fetched.data
    IN  IF ~w.fetched.success THEN OnFailure(w)
        ELSE IF PyLen(data.v) = 0 THEN NotFound("City not found or geocoding error")
        ELSE IF data.shape = "list"
             THEN Fresh(filter_local_names(data.v[1]))
             ELSE Raised("KeyError")

AfterCurrent(w) ==
    LET data == w.fetched.data.v
    IN  IF ~w.fetched.success THEN OnFailure(w)
        ELSE IF Get(data, "cod") # "int200" THEN ApiError(data, "Unknown error from API")
        ELSE Fresh(data)

AfterHourly(w) ==
    LET data == w.fetched.data.v
    IN  IF ~w.fetched.success THEN OnFailure(w)
        ELSE IF Get(data, "cod") # "str200" /\ Get(data, "cod") # "int200"
             THEN ApiError(data, "API error with code")
        ELSE Fresh(data)

AfterDaily(w) ==
    LET data == w.fetched.data.v
    IN  IF ~w.fetched.success THEN OnFailure(w)
        ELSE IF Get(data, "cod") # "str200" /\ Get(data, "cod") # "int200"
             THEN ApiError(data, "API error with code")
        ELSE Fresh(DailyData(data))

AfterAirPollution(w) ==
    LET data == w.fetched.data.v
    IN  IF ~w.fetched.success THEN OnFailure(w)
        ELSE IF PyLen(data) = 0 THEN NotFound("No air pollution data")
        ELSE Fresh(data)

AfterFetch(w) ==
    CASE w.kind = "coords_by_city" -> AfterCoordsByCity(w)
      [] w.kind = "city_by_coords" -> AfterCityByCoords(w)
      [] w.kind = "current" -> AfterCurrent(w)
      [] w.kind = "hourly" -> AfterHourly(w)
      [] w.kind = "daily" -> AfterDaily(w)
      [] OTHER -> AfterAirPollution(w)

\* What the write of a cache file can meet: it succeeds, open() fails, or
\* json.dump fails after open() has emptied the file.
DiskOutcomes == {"ok", "open_fails", "dump_fails"}

\* save_cache(cache_data, cache_file): the whole table replaces the file.
\* A failed write is printed and not raised; a file left empty or cut short
\* reads as {} (load_cache catches the JSON error).
save_cache(cache_data, file, disk) ==
    CASE disk = "ok" -> [store EXCEPT ![file] = cache_data]
      [] disk = "open_fails" -> store
      [] OTHER -> [store EXCEPT ![file] = EmptyTable]

\* A workflow that lets the exception of a failed write out.
AfterSaveRaising(o, disk) ==
    IF o.write /\ disk # "ok" THEN Raised("OSError") ELSE o

\* What the workflow returns once save_cache has returned: the outcome it
\* had before the write, whatever the write met.
AfterSave(o, disk) == o

\* Variant of WithEntry: an entry whose payload is unchanged is left as it is.
WithEntryUnlessSame(cache, key, data, now) ==
    IF key \in DOMAIN cache /\ cache[key].data = data
    THEN cache
    ELSE Put(cache, key, [fetched_at |-> <<now>>, data |-> data])

\* Variant of WithEntry: the table written holds the new entry alone.
WithEntryAlone(cache, key, data, now) ==
    Put(EmptyTable, key, [fetched_at |-> <<now>>, data |-> data])

\* cache[cache_key] = {..., "fetched_at": now, "data": data}
WithEntry(cache, key, data, now) == Put(cache, key, [fetched_at |-> <<now>>, data |-> data])

ResultOf(o, now) ==
    [status |-> o.status, path |-> o.path, printed |-> o.printed, value |-> o.value, at |-> now]

-----------------------------------------------------------------------------
(* Actions of the cache workflows *)

\* What load_cache returns when the read of an existing file raises: the
\* exception is printed and the table is {}.
load_cache_or_empty(file, read) == IF read = "ok" THEN load_cache(file) ELSE EmptyTable

\* The workflow up to its first network call: load the file, check the entry.
StartReading(c, kind, subj, read) ==
    LET cache == load_cache_or_empty(FileOf(kind), read)
        key == KeyOf(kind, subj)
        w == [IdleWf EXCEPT !.kind = kind, !.subj = subj, !.key = key, !.cache = cache,
                            !.started = clock,
                            !.prior = IF key \in DOMAIN puts THEN <<puts[key]>> ELSE <<>>]
    IN  /\ wf[c].pc = "idle"
        /\ FileOf(kind) = focus
        /\ runs < MaxRuns
        /\ runs' = runs + 1
        /\ IF key \in DOMAIN cache /\ is_cache_valid(cache[key], clock)
           THEN /\ wf' = [wf EXCEPT ![c] = w]
                /\ result' = [result EXCEPT ![c] =
                                ResultOf(Returned("hit", "cache", cache[key].data), clock)]
           ELSE /\ wf' = [wf EXCEPT ![c] = [w EXCEPT !.pc = "request"]]
                /\ result' = [result EXCEPT ![c] = NoResult]
        /\ UNCHANGED <<store, clock, focus, puts, schedVars, sideVars, auxVars>>

\* The workflow started with the file read as it is.
Start(c, kind, subj) == StartReading(c, kind, subj, "ok")

\* One requests.get of the retry loop and what the loop does with its outcome.
Attempt(c) ==
    /\ wf[c].pc = "request"
    /\ \E out \in Outcomes(wf[c].kind) :
          wf' = [wf EXCEPT ![c] = RetryStep(wf[c], out)]
    /\ UNCHANGED <<store, result, runs, clock, focus, puts, schedVars, sideVars, auxVars>>

\* The rest of the workflow after the fetcher returned.
Finish(c, disk) ==
    LET w == wf[c]
        o == AfterFetch(w)
    IN  /\ w.pc = "fetched"
        /\ IF o.status = "choose"
           THEN /\ disk = "ok"
                /\ wf' = [wf EXCEPT ![c].pc = "choose"]
                /\ UNCHANGED <<store, result, puts>>
           ELSE /\ o.write \/ disk = "ok"
                /\ wf' = [wf EXCEPT ![c].pc = "idle",
                                    ![c].disk = IF o.write THEN disk ELSE "none"]
                /\ result' = [result EXCEPT ![c] = ResultOf(AfterSave(o, disk), clock)]
                /\ store' = IF o.write
                            THEN save_cache(WithEntry(w.cache, w.key, o.value, clock),
                                            FileOf(w.kind), disk)
                            ELSE store
                /\ puts' = IF o.write /\ disk = "ok"
                           THEN Put(puts, w.key, [p |-> o.value, t |-> clock])
                           ELSE puts
        /\ UNCHANGED <<runs, clock, focus, schedVars, sideVars, auxVars>>

\* get_coordinates_by_city with several candidates: the number typed at the console.
ConsoleChoice(c, disk) ==
    LET w == wf[c]
        geo_data == w.fetched.data.v
    IN  /\ w.pc = "choose"
        /\ \E user_choice \in 0..(Len(geo_data) - 1) :
           LET chosen == filter_local_names(geo_data[user_choice + 1])
           IN  /\ store' = save_cache(WithEntry(w.cache, w.key, chosen, clock),
                                      FileOf(w.kind), disk)
               /\ result' = [result EXCEPT ![c] =
                                 ResultOf(AfterSave(Fresh(chosen), disk), clock)]
               /\ puts' = IF disk = "ok" THEN Put(puts, w.key, [p |-> chosen, t |-> clock])
                          ELSE puts
        /\ wf' = [wf EXCEPT ![c].pc = "idle", ![c].disk = disk]
        /\ UNCHANGED <<runs, clock, focus, schedVars, sideVars, auxVars>>

ClockAdvances == {90}

\* The clock moves in steps much longer than a workflow's network time
\* (three attempts of at most 10 s plus 3 s of sleep), so it moves between
\* workflows, or while one waits at the console.
Tick ==
    /\ \A c \in Callers : wf[c].pc \in {"idle", "choose"}
    /\ \E d \in ClockAdvances :
          /\ clock + d <= MaxClockSteps * 90
          /\ clock' = clock + d
    /\ UNCHANGED <<cacheVars, schedVars, sideVars, auxVars>>

-----------------------------------------------------------------------------
(* Decimal numbers and "HH:MM" strings *)

MINUTES_PER_DAY == 1440         \* every().day

DigitChars == <<"0", "1", "2", "3", "4", "5", "6", "7", "8", "9">>

IsDigit(ch) == ch \in {"0", "1", "2", "3", "4", "5", "6", "7", "8", "9"}

DigitVal(ch) == (CHOOSE d \in 1..10 : DigitChars[d] = ch) - 1

AllDigits(s) == Len(s) > 0 /\ \A i \in 1..Len(s) : IsDigit(s[i])

\* str(n) of a non-negative integer.
RECURSIVE Str(_)
Str(n) ==
    IF n < 10 THEN <<DigitChars[n + 1]>>
    ELSE Str(n \div 10) \o <<DigitChars[(n % 10) + 1]>>

\* f"{n:02d}"
Fmt02(n) ==
    IF n < 0 THEN <<"-">> \o Str(0 - n)
    ELSE IF n < 10 THEN <<"0">> \o Str(n) ELSE Str(n)

\* int(s) of a string of decimal digits.
RECURSIVE IntOf(_)
IntOf(s) ==
    IF Len(s) = 0 THEN 0
    ELSE 10 * IntOf(SubSeq(s, 1, Len(s) - 1)) + DigitVal(s[Len(s)])

\* time_str.split(':') when it yields exactly two parts, else <<>>.
TimeParts(time_str) ==
    LET colons == {i \in 1..Len(time_str) : time_str[i] = ":"}
    IN  IF Cardinality(colons) = 1
        THEN LET i == CHOOSE k \in colons : TRUE
             IN  <<SubSeq(time_str, 1, i - 1), SubSeq(time_str, i + 1, Len(time_str))>>
        ELSE <<>>

\* datetime.strptime(time_str, "%H:%M") does not raise: one or two digits
\* of hour (0..23), a colon, one or two digits of minute (0..59).
StrptimeAccepts(time_str) ==
    LET p == TimeParts(time_str)
    IN  /\ p # <<>>
        /\ AllDigits(p[1]) /\ Len(p[1]) <= 2 /\ IntOf(p[1]) <= 23
        /\ AllDigits(p[2]) /\ Len(p[2]) <= 2 /\ IntOf(p[2]) <= 59

\* process_fixed_time_input, one part of the text: <<"HH:MM">> zero-padded,
\* or <<>> when the part goes to invalid_times.
FormattedTime(time_str) ==
    LET p == TimeParts(time_str)
    IN  IF p = <<>> THEN <<>>
        ELSE IF ~(AllDigits(p[1]) /\ AllDigits(p[2])) THEN <<>>
        ELSE IF IntOf(p[1]) <= 23 /\ IntOf(p[2]) <= 59
             THEN << Fmt02(IntOf(p[1])) \o <<":">> \o Fmt02(IntOf(p[2])) >>
             ELSE <<>>

\* schedule's Job.at(time_str) of a daily job accepts exactly two digits of
\* hour (00..23), a colon and two digits of minute (00..59); anything else
\* raises ScheduleValueError.
AtAccepts(time_str) ==
    /\ Len(time_str) = 5
    /\ time_str[1] \in {"0", "1", "2"} /\ IsDigit(time_str[2])
    /\ time_str[3] = ":"
    /\ time_str[4] \in {"0", "1", "2", "3", "4", "5"} /\ IsDigit(time_str[5])
    /\ IntOf(SubSeq(time_str, 1, 2)) <= 23

\* The time of day of an accepted string, in minutes.
AtMinutes(time_str) == 60 * IntOf(SubSeq(time_str, 1, 2)) + IntOf(SubSeq(time_str, 4, 5))

\* s contains sub ("sub in s").
Contains(sub, s) ==
    \E i \in 0..(Len(s) - Len(sub)) : SubSeq(s, i + 1, i + Len(sub)) = sub

T0759 == <<"0", "7", ":", "5", "9">>
T0800 == <<"0", "8", ":", "0", "0">>
T0801 == <<"0", "8", ":", "0", "1">>
T1800 == <<"1", "8", ":", "0", "0">>
T800  == <<"8", ":", "0", "0">>

-----------------------------------------------------------------------------
(* The user table (user_manager.py) *)

UserIds == {1, 11}

NoTimes == <<>>

HasUser(table, user_id) == \E i \in 1..Len(table) : table[i].user_id = user_id

\* get_user_data: <<record>> or <<>> (None).
get_user_data(table, user_id) ==
    IF HasUser(table, user_id)
    THEN << table[CHOOSE i \in 1..Len(table) : table[i].user_id = user_id] >>
    ELSE <<>>

add_user(table, user_id) ==
    IF HasUser(table, user_id) THEN table
    ELSE Append(table, [user_id |-> user_id,
                        notifications_enabled |-> FALSE,
                        notification_times |-> <<T0800, T1800>>])

ensure_user_exists(table, user_id) ==
    IF get_user_data(table, user_id) = <<>> THEN add_user(table, user_id) ELSE table

\* times is <<list>> or <<>> (None: the stored times are kept).  An unknown
\* user leaves the table as it is (the method returns False).
update_notification_settings(table, user_id, enabled, times) ==
    [i \in 1..Len(table) |->
        IF table[i].user_id = user_id
        THEN [table[i] EXCEPT !.notifications_enabled = enabled,
                              !.notification_times =
                                  IF times # <<>> THEN times[1] ELSE @]
        ELSE table[i]]

\* get_all_users_with_notifications that does not look at the flag.
get_all_users_regardless(table) ==
    SelectSeq(table, LAMBDA r : TRUE)

\* The users whose notifications_enabled is true, in table order.
get_all_users_with_notifications(table) ==
    SelectSeq(table, LAMBDA r : r.notifications_enabled)

-----------------------------------------------------------------------------
(* The job registry (the schedule library as notification_scheduler.py uses it) *)

\* f"user_{user_id}_{time_str}"
TagOf(user_id, time_str) ==
    <<"u", "s", "e", "r", "_">> \o Str(user_id) \o <<"_">> \o time_str

\* str(job.tags) of a job with one tag.
StrTags(tag) == <<"{", "'">> \o tag \o <<"'", "}">>

\* A matcher that leaves out the closing underscore.
TagMatchesAnyPrefix(user_id, job) ==
    Contains(<<"u", "s", "e", "r", "_">> \o Str(user_id), StrTags(job.tag))

\* f"user_{user_id}_" in str(job.tags)
TagMatches(user_id, job) ==
    Contains(<<"u", "s", "e", "r", "_">> \o Str(user_id) \o <<"_">>, StrTags(job.tag))

\* A new or just-run daily job runs next at its time of day: today if that
\* is still ahead of now, else tomorrow.
NextRun(now, at) ==
    IF at > now % MINUTES_PER_DAY
    THEN (now \div MINUTES_PER_DAY) * MINUTES_PER_DAY + at
    ELSE (now \div MINUTES_PER_DAY + 1) * MINUTES_PER_DAY + at

\* The job objects a run_pending in progress still holds.
HeldIds(ths) ==
    UNION { {ths[i].queue[k].id : k \in 1..Len(ths[i].queue)} : i \in 1..Len(ths) }

\* Identity of a new job object: distinct from every object in use.
FreshId(js, held) ==
    LET used == {js[k].id : k \in 1..Len(js)} \cup held
    IN  CHOOSE n \in 1..(Cardinality(used) + 1) :
            n \notin used /\ \A m \in 1..(n - 1) : m \in used

\* schedule.every().day.at(time_str).do(send_weather_notification,
\*                                      user_id=user_id).tag(...)
NewJob(js, held, user_id, time_str, now) ==
    [id |-> FreshId(js, held),
     tag |-> TagOf(user_id, time_str),
     user |-> user_id,
     at |-> AtMinutes(time_str),
     next_run |-> NextRun(now, AtMinutes(time_str))]

\* The registration loop over a user's times.  In schedule_notifications
\* each time has its own try (a rejected time is skipped); in
\* add_user_notification one try holds the loop (a rejected time ends it).
RECURSIVE AddEach(_, _, _, _, _, _)
AddEach(js, held, user_id, times, now, stopOnError) ==
    IF times = <<>> THEN js
    ELSE IF AtAccepts(Head(times))
         THEN AddEach(Append(js, NewJob(js, held, user_id, Head(times), now)),
                      held, user_id, Tail(times), now, stopOnError)
         ELSE IF stopOnError THEN js
              ELSE AddEach(js, held, user_id, Tail(times), now, stopOnError)

add_user_notification(js, held, user_id, times, now) ==
    AddEach(js, held, user_id, times, now, TRUE)

RECURSIVE ScheduleUsers(_, _, _, _)
ScheduleUsers(js, held, users_with_notifications, now) ==
    IF users_with_notifications = <<>> THEN js
    ELSE ScheduleUsers(AddEach(js, held, Head(users_with_notifications).user_id,
                               Head(users_with_notifications).notification_times,
                               now, FALSE),
                       held, Tail(users_with_notifications), now)

\* schedule.clear(), then one job per time of every enabled user.
schedule_notifications(table, held, now) ==
    ScheduleUsers(<<>>, held, get_all_users_with_notifications(table), now)

remove_user_notifications(js, user_id) ==
    SelectSeq(js, LAMBDA job : ~TagMatches(user_id, job))

\* reschedule_user_notifications without the removal of the old jobs.
reschedule_keeping_old(table, js, held, user_id, now) ==
    LET user_data == get_user_data(table, user_id)
    IN  IF user_data = <<>> \/ ~user_data[1].notifications_enabled
        THEN js
        ELSE add_user_notification(js, held, user_id,
                                   user_data[1].notification_times, now)

reschedule_user_notifications(table, js, held, user_id, now) ==
    LET removed == remove_user_notifications(js, user_id)
        user_data == get_user_data(table, user_id)
    IN  IF user_data = <<>> \/ ~user_data[1].notifications_enabled
        THEN removed
        ELSE add_user_notification(removed, held, user_id,
                                   user_data[1].notification_times, now)

\* add_regular_notification: the times it generates.
RECURSIVE RegularTimes(_, _, _)
RegularTimes(current_hour, end_hour, interval_hours) ==
    IF current_hour <= end_hour
    THEN <<Fmt02(current_hour) \o <<":", "0", "0">>>>
         \o RegularTimes(current_hour + interval_hours, end_hour, interval_hours)
    ELSE <<>>

\* process_fixed_time_input: the parts of the text, formatted, without
\* repetitions, in the order of first appearance.
RECURSIVE FormatParts(_, _)
FormatParts(time_parts, times) ==
    IF time_parts = <<>> THEN times
    ELSE LET f == FormattedTime(Head(time_parts))
         IN  IF f # <<>> /\ ~(\E i \in 1..Len(times) : times[i] = f[1])
             THEN FormatParts(Tail(time_parts), Append(times, f[1]))
             ELSE FormatParts(Tail(time_parts), times)

\* times.sort() of zero-padded "HH:MM" strings: by time of day.
RECURSIVE SortTimes(_)
SortTimes(times) ==
    IF times = <<>> THEN <<>>
    ELSE LET m == CHOOSE i \in 1..Len(times) :
                      \A k \in 1..Len(times) : AtMinutes(times[i]) <= AtMinutes(times[k])
         IN  <<times[m]>> \o SortTimes(SubSeq(times, 1, m - 1) \o SubSeq(times, m + 1, Len(times)))

\* sorted(runnable_jobs): by next_run, jobs of equal next_run in list order.
RECURSIVE SortJobs(_)
SortJobs(js) ==
    IF js = <<>> THEN <<>>
    ELSE LET m == CHOOSE i \in 1..Len(js) :
                      /\ \A k \in 1..Len(js) : js[i].next_run <= js[k].next_run
                      /\ \A k \in 1..(i - 1) : js[k].next_run > js[i].next_run
         IN  <<js[m]>> \o SortJobs(SubSeq(js, 1, m - 1) \o SubSeq(js, m + 1, Len(js)))

-----------------------------------------------------------------------------
(* The scheduler: management operations, the polling threads, the clock *)

NoOp == [name |-> "none", user |-> 0, n |-> 0, had |-> FALSE,
         others |-> <<>>, mid |-> <<>>, first |-> <<>>]

\* A job list without the identities of the job objects.
Strip(js) ==
    [k \in 1..Len(js) |-> [tag |-> js[k].tag, user |-> js[k].user,
                           at |-> js[k].at, next_run |-> js[k].next_run]]

JobsOf(js, user_id) == SelectSeq(js, LAMBDA job : job.user = user_id)

JobsOfOthers(js, user_id) == SelectSeq(js, LAMBDA job : job.user # user_id)

\* The persisted table has user_id enabled with the time of day `at` among
\* its well-formed times.
Persisted(table, user_id, at) ==
    LET user_data == get_user_data(table, user_id)
    IN  /\ user_data # <<>>
        /\ user_data[1].notifications_enabled
        /\ \E i \in 1..Len(user_data[1].notification_times) :
              /\ AtAccepts(user_data[1].notification_times[i])
              /\ AtMinutes(user_data[1].notification_times[i]) = at

LoopRunning(running, ths) == running /\ \E i \in 1..Len(ths) : ths[i].pc # "dead"

\* History: an occurrence stops being owed once its time leaves the
\* persisted table, its user is disabled, or the loop is stopped.
Excuse(o, table, running, ths) ==
    LET keep == {p \in DOMAIN o :
                    \/ o[p] = "polled"
                    \/ LoopRunning(running, ths) /\ Persisted(table, p[1], p[2])}
    IN  [p \in keep |-> o[p]]

\* History: a run_pending has completed since the owed occurrences came due.
Polled(o) == [p \in DOMAIN o |-> "polled"]

Count(p) == IF p \in DOMAIN attempts THEN attempts[p] ELSE 0

\* History record of a reschedule_user_notifications(user_id) call made on
\* the table `table`.
Rescheduled(table, user_id) ==
    LET again == /\ lastOp.name = "reschedule"
                 /\ lastOp.user = user_id
                 /\ get_user_data(table, user_id) = get_user_data(users, user_id)
    IN  [name |-> "reschedule", user |-> user_id,
         n |-> IF again THEN 2 ELSE 1,
         had |-> JobsOf(jobs, user_id) # <<>>,
         others |-> Strip(JobsOfOthers(jobs, user_id)),
         mid |-> Strip(remove_user_notifications(jobs, user_id)),
         first |-> IF again THEN lastOp.first
                   ELSE Strip(reschedule_user_notifications(
                                  table, jobs, HeldIds(threads), user_id, clock))]

\* What every management operation has in common.
Manage(newUsers, newJobs, newRunning, newThreads, op) ==
    /\ ops < MaxOps
    /\ ops' = ops + 1
    /\ users' = newUsers
    /\ jobs' = newJobs
    /\ is_running' = newRunning
    /\ threads' = newThreads
    /\ occ' = Excuse(occ, newUsers, newRunning, newThreads)
    /\ lastOp' = op
    /\ UNCHANGED <<clock, attempts, deliveries, cacheVars, sideVars, auxVars>>

\* /start of a user the table does not hold yet.
handle_start(user_id) ==
    /\ ~HasUser(users, user_id)
    /\ Manage(ensure_user_exists(users, user_id), jobs, is_running, threads, NoOp)

\* The "toggle_notifications" button.
toggle_notifications(user_id) ==
    LET table0 == ensure_user_exists(users, user_id)
        current_status == get_user_data(table0, user_id)[1].notifications_enabled
        table1 == update_notification_settings(table0, user_id, ~current_status, NoTimes)
    IN  Manage(table1,
               reschedule_user_notifications(table1, jobs, HeldIds(threads), user_id, clock),
               is_running, threads, Rescheduled(table1, user_id))

\* The times typed after "change_notification_times", split at the commas.
\* A text with a part strptime rejects is answered with an error and
\* changes nothing.
process_notification_times_input(user_id, times) ==
    LET table1 == update_notification_settings(users, user_id, TRUE, <<times>>)
    IN  /\ Manage(table1,
                  reschedule_user_notifications(table1, jobs, HeldIds(threads), user_id, clock),
                  is_running, threads, Rescheduled(table1, user_id))
        /\ HasUser(users, user_id)
        /\ \A i \in 1..Len(times) : StrptimeAccepts(times[i])

\* The times typed for fixed notifications, split at commas and blanks.
process_fixed_time_input(user_id, time_parts) ==
    LET table0 == ensure_user_exists(users, user_id)
        invalid_times == \E i \in 1..Len(time_parts) : FormattedTime(time_parts[i]) = <<>>
        times == SortTimes(FormatParts(time_parts, <<>>))
        table1 == update_notification_settings(table0, user_id, TRUE, <<times>>)
        rejected == invalid_times \/ times = <<>>
    IN  Manage(IF rejected THEN table0 ELSE table1,
               IF rejected THEN jobs
               ELSE schedule_notifications(table1, HeldIds(threads), clock),
               is_running, threads, NoOp)

\* The while loop of add_regular_notification never ends: current_hour does
\* not grow and the list of times does, until the MemoryError that the
\* method catches (it returns False).
EndlessRange(start_hour, end_hour, interval_hours) ==
    interval_hours <= 0 /\ start_hour <= end_hour

\* add_regular_notification that stores the times and leaves the flag.
add_regular_keeping_flag(table, js, held, user_id, start_hour, end_hour, interval_hours, now) ==
    LET notification_times == RegularTimes(start_hour, end_hour, interval_hours)
        enabled == HasUser(table, user_id)
                   /\ get_user_data(table, user_id)[1].notifications_enabled
        table1 == update_notification_settings(table, user_id, enabled, <<notification_times>>)
    IN  IF EndlessRange(start_hour, end_hour, interval_hours) \/ ~HasUser(table, user_id)
        THEN [users |-> table, jobs |-> js, ok |-> FALSE]
        ELSE [users |-> table1, jobs |-> schedule_notifications(table1, held, now), ok |-> TRUE]

\* add_regular_notification: the table and the job list it leaves.
add_regular_notification(table, js, held, user_id, start_hour, end_hour, interval_hours, now) ==
    LET notification_times == RegularTimes(start_hour, end_hour, interval_hours)
        table1 == update_notification_settings(table, user_id, TRUE, <<notification_times>>)
    IN  IF EndlessRange(start_hour, end_hour, interval_hours) \/ ~HasUser(table, user_id)
        THEN [users |-> table, jobs |-> js, ok |-> FALSE]
        ELSE [users |-> table1, jobs |-> schedule_notifications(table1, held, now), ok |-> TRUE]

\* /regular <start_hour> <end_hour> <interval_hours>
handle_regular_command(user_id, start_hour, end_hour, interval_hours) ==
    LET table0 == ensure_user_exists(users, user_id)
        valid == /\ 0 <= start_hour /\ start_hour <= 23
                 /\ 0 <= end_hour /\ end_hour <= 23
                 /\ start_hour < end_hour
                 /\ interval_hours >= 1 /\ interval_hours <= 12
        r == add_regular_notification(table0, jobs, HeldIds(threads), user_id,
                                      start_hour, end_hour, interval_hours, clock)
    IN  Manage(IF valid THEN r.users ELSE table0,
               IF valid THEN r.jobs ELSE jobs,
               is_running, threads, NoOp)

\* A call of the management operation itself.
Reschedule(user_id) ==
    Manage(users,
           reschedule_user_notifications(users, jobs, HeldIds(threads), user_id, clock),
           is_running, threads, Rescheduled(users, user_id))

start_scheduler ==
    /\ ~is_running
    /\ Len(threads) < MaxThreads
    /\ Manage(users, schedule_notifications(users, HeldIds(threads), clock), TRUE,
              Append(threads, [pc |-> "loop", queue |-> <<>>, wake |-> clock]), NoOp)

stop_scheduler == Manage(users, <<>>, FALSE, threads, NoOp)

\* run_scheduler, from the test of the while loop to the start of the
\* sleep: the thread ends when is_running is false; else run_pending takes
\* the due jobs, and with none due the thread sleeps for a minute.
LoopStep(i) ==
    LET runnable == SortJobs(SelectSeq(jobs, LAMBDA job : clock >= job.next_run))
    IN  /\ i \in 1..Len(threads)
        /\ threads[i].pc = "loop"
        /\ threads[i].wake <= clock
        /\ IF ~is_running
           THEN /\ threads' = [threads EXCEPT ![i].pc = "dead"]
                /\ occ' = occ
           ELSE IF runnable = <<>>
           THEN /\ threads' = [threads EXCEPT ![i].wake = clock + 1]
                /\ occ' = Polled(occ)
           ELSE /\ threads' = [threads EXCEPT
                                 ![i].pc = "run",
                                 ![i].queue = [k \in 1..Len(runnable) |->
                                                  [id |-> runnable[k].id,
                                                   user |-> runnable[k].user,
                                                   at |-> runnable[k].at]]]
                /\ occ' = occ
        /\ lastOp' = NoOp
        /\ UNCHANGED <<clock, users, jobs, is_running, attempts, deliveries, ops, cacheVars, sideVars, auxVars>>

\* What can happen inside send_weather_notification: the user has no
\* default_city, get_weather_by_city returns an error dictionary or raises,
\* send_message raises, or the message is sent.
DeliveryOutcomes == {"no_city", "fetch_error", "lookup_raises", "send_raises", "sent"}

\* send_weather_notification that lets a failure of send_message out.
send_weather_notification_unguarded(outcome) ==
    [sent |-> outcome \in {"fetch_error", "sent"},
     raised |-> outcome = "send_raises"]

\* send_weather_notification: whether send_message delivered a message and
\* whether an exception leaves the method.  A missing city returns before
\* the lookup; an error dictionary is sent as an error message; everything
\* raised inside the try block is caught and printed.
send_weather_notification(outcome) ==
    [sent |-> outcome \in {"fetch_error", "sent"},
     raised |-> FALSE]

\* run_pending calls the job function of the next job it took:
\* send_weather_notification(user_id).  The call is the delivery attempt;
\* the weather lookup it makes goes through the workflows explored under
\* SpecCache, and the cache files are not followed here.  An exception that
\* left the job function would leave run_pending too, with the job not
\* rescheduled and the other jobs taken not run, and run_scheduler would
\* catch it and sleep for a minute.
RunJob(i, outcome) ==
    /\ i \in 1..Len(threads)
    /\ threads[i].pc = "run"
    /\ LET job == Head(threads[i].queue)
           p == <<job.user, job.at>>
           r == send_weather_notification(outcome)
       IN  /\ attempts' = [q \in DOMAIN attempts \cup {p} |->
                              IF q = p THEN Count(p) + 1 ELSE attempts[q]]
           /\ deliveries' = [q \in DOMAIN deliveries \cup {p} |->
                                IF q = p
                                THEN [outcome |-> outcome, sent |-> r.sent,
                                      stopped |-> ~is_running]
                                ELSE deliveries[q]]
           /\ IF r.raised
              THEN /\ threads' = [threads EXCEPT ![i].pc = "loop", ![i].queue = <<>>,
                                                 ![i].wake = clock + 1]
                   /\ occ' = Polled(occ)
              ELSE /\ threads' = [threads EXCEPT ![i].pc = "sent"]
                   /\ occ' = occ
    /\ lastOp' = NoOp
    /\ UNCHANGED <<clock, users, jobs, is_running, ops, cacheVars, sideVars, auxVars>>

\* The job function has returned: the job object gets its next run; after
\* the last job taken the thread sleeps for a minute.
JobDone(i) ==
    /\ i \in 1..Len(threads)
    /\ threads[i].pc = "sent"
    /\ LET job == Head(threads[i].queue)
           rest == Tail(threads[i].queue)
       IN  /\ jobs' = [k \in 1..Len(jobs) |->
                          IF jobs[k].id = job.id
                          THEN [jobs[k] EXCEPT !.next_run = NextRun(clock, job.at)]
                          ELSE jobs[k]]
           /\ IF rest = <<>>
              THEN /\ threads' = [threads EXCEPT ![i].pc = "loop", ![i].queue = <<>>,
                                                 ![i].wake = clock + 1]
                   /\ occ' = Polled(occ)
              ELSE /\ threads' = [threads EXCEPT ![i].pc = "run", ![i].queue = rest]
                   /\ occ' = occ
    /\ lastOp' = NoOp
    /\ UNCHANGED <<clock, users, is_running, attempts, deliveries, ops, cacheVars, sideVars, auxVars>>

\* A minute passes.  A poll and its deliveries take less than a minute, so
\* every live thread is asleep when it does; the occurrences of the new
\* minute come due.
MinutePasses ==
    /\ clock - AtMinutes(T0759) < MaxTicks
    /\ \A i \in 1..Len(threads) :
          \/ threads[i].pc = "dead"
          \/ threads[i].pc = "loop" /\ threads[i].wake > clock
    /\ clock' = clock + 1
    /\ LET at == (clock + 1) % MINUTES_PER_DAY
           due == {<<u, at>> : u \in {v \in UserIds :
                                        /\ LoopRunning(is_running, threads)
                                        /\ Persisted(users, v, at)}}
       IN  occ' = [p \in DOMAIN occ \cup due |->
                      IF p \in DOMAIN occ THEN occ[p] ELSE "owed"]
    /\ lastOp' = NoOp
    /\ UNCHANGED <<users, jobs, is_running, threads, attempts, deliveries, ops, cacheVars, sideVars, auxVars>>

\* Texts typed by users.
TimesInputs == { <<T0800>>, <<T0800, T0800>>, <<T800>>, <<T0801, T0800>> }

FixedInputs == { <<T800>>, <<T0801, T0800>> }

RegularInputs == { <<8, 18, 10>>, <<20, 5, 1>> }

\* The table left by an earlier run of the bot.
InitialUsers ==
    { <<>>,
      << [user_id |-> 1, notifications_enabled |-> TRUE,
          notification_times |-> <<T0800, T1800>>],
         [user_id |-> 11, notifications_enabled |-> TRUE,
          notification_times |-> <<T0800, T1800>>] >> }

SchedulerIdle ==
    /\ users = <<>>
    /\ jobs = <<>>
    /\ is_running = FALSE
    /\ threads = <<>>
    /\ attempts = <<>>
    /\ deliveries = <<>>
    /\ occ = <<>>
    /\ ops = 0
    /\ lastOp = NoOp

\* History: no update_currency_rates call has ended yet.
NoUpdate == [name |-> "none"]

\* bot.py starts with city_selection_data = {}.
SideIdle ==
    /\ city_selection_data = [u \in UserIds |-> <<>>]
    /\ served = [u \in UserIds |-> <<>>]
    /\ currency_file = <<>>
    /\ currency_log = NoUpdate

\* The files the loaders read, and what can be wrong with one: it is not
\* there, it is no JSON, it cannot be opened, its bytes are no UTF-8, or
\* its JSON is no object.
StoreFiles == {"cache", "users", "schedule"}

FileConditions == {"valid", "missing", "invalid_json", "unreadable", "not_utf8", "not_object"}

\* History: no load has been made yet.
NoLoad == [name |-> "none"]

\* The threads that update users.json, and a thread in no update.
Threads == {"handler", "scheduler"}

NoUpdateInFlight == [pc |-> "idle"]

\* History: no key has been computed yet.
NoProbe == [name |-> "none"]

MoreIdle ==
    /\ pending = [t \in Threads |-> NoUpdateInFlight]
    /\ probe = NoProbe

AuxIdle ==
    /\ file_state = [f \in StoreFiles |-> "valid"]
    /\ load_log = NoLoad
    /\ MoreIdle

-----------------------------------------------------------------------------
(* The cache workflows called one at a time by the interactive path *)

\* A cache file left by an earlier run; one entry has no usable fetched_at.
LegacyEntry == [fetched_at |-> <<>>, data |-> [cod |-> "int200", name |-> "w0"]]
LegacyKey == KeyOf("current", <<54738, 55972>>)

InitialStores ==
    { [f \in Files |-> EmptyTable],
      [f \in Files |-> IF f = "current" THEN Put(EmptyTable, LegacyKey, LegacyEntry)
                                         ELSE EmptyTable] }

\* A workflow reads and writes only the file of its own data category, so
\* workflows of different files do not influence one another; a behaviour
\* exercises the workflows of one file.

InitCache ==
    /\ clock = 0
    /\ focus \in Files
    /\ store \in InitialStores
    /\ \A f \in Files \ {focus} : store[f] = EmptyTable
    /\ wf = [c \in Callers |-> IdleWf]
    /\ result = [c \in Callers |-> NoResult]
    /\ runs = 0
    /\ puts = EmptyTable
    /\ SchedulerIdle
    /\ SideIdle
    /\ AuxIdle

vars == <<clock, store, wf, result, runs, focus, puts,
         users, jobs, is_running, threads, attempts, deliveries, occ, ops, lastOp,
         city_selection_data, served, currency_file, currency_log,
         file_state, load_log, pending, probe>>

NextCache ==
    \/ \E kind \in Kinds : \E subj \in Subjects(kind) : Start("interactive", kind, subj)
    \/ Attempt("interactive")
    \/ Finish("interactive", "ok")
    \/ ConsoleChoice("interactive", "ok")
    \/ Tick

SpecCache == InitCache /\ [][NextCache]_vars

-----------------------------------------------------------------------------
(* Properties of the cache workflows (checked under SpecCache) *)

\* The workflow of caller c has returned (or raised).
Done(c) == wf[c].pc = "idle" /\ result[c].status # "none"

\* The file of c's workflow as it was when the workflow loaded it.
Loaded(c) == wf[c].cache

HadEntry(c) == wf[c].key \in DOMAIN Loaded(c)

IsError(r) == r.status = "returned" /\ "error" \in DOMAIN r.value

\* The fetcher gave up after MAX_RETRIES transient answers.
Exhausted(c) == wf[c].last \in Transient /\ wf[c].pc # "request"

\* C1: when the upstream call fails after exhausting its retries, a workflow
\* whose file holds an entry for the key, of whatever age, returns that
\* entry's payload and reports it as served from the cache after a network
\* error; with no entry it returns an error value and no payload.
C1_StaleFallback ==
    \A c \in Callers :
        (Done(c) /\ Exhausted(c)) =>
            IF HadEntry(c)
            THEN /\ result[c].status = "returned"
                 /\ result[c].value = Loaded(c)[wf[c].key].data
                 /\ result[c].printed = "stale"
                 /\ store[FileOf(wf[c].kind)][wf[c].key] = Loaded(c)[wf[c].key]
            ELSE /\ IsError(result[c])
                 /\ result[c].value = ExhaustedError(wf[c].last)

\* An exhausted fetch answered from an entry older than the TTL.
C1_Witness ==
    \E c \in Callers :
        /\ Done(c) /\ Exhausted(c) /\ HadEntry(c)
        /\ result[c].path = "stale"
        /\ Loaded(c)[wf[c].key].fetched_at # <<>>
        /\ wf[c].started - Loaded(c)[wf[c].key].fetched_at[1] >= TTL_MINUTES

\* The entry for c's key was younger than the TTL when the workflow started.
HadValidEntry(c) ==
    /\ HadEntry(c)
    /\ Loaded(c)[wf[c].key].fetched_at # <<>>
    /\ wf[c].started - Loaded(c)[wf[c].key].fetched_at[1] < TTL_MINUTES

\* C2: a workflow that finds an entry for its key younger than 3 hours
\* returns the cached payload without any upstream call; an entry of 3 hours
\* or more, or without a parseable fetched_at, is never served as valid.
C2_CacheHitShortCircuit ==
    \A c \in Callers :
        /\ (wf[c].kind # "none" /\ HadValidEntry(c)) =>
                /\ Done(c)
                /\ result[c].path = "hit"
                /\ result[c].value = Loaded(c)[wf[c].key].data
                /\ wf[c].calls = 0
        /\ (wf[c].kind # "none" /\ ~HadValidEntry(c)) =>
                /\ result[c].path # "hit"
                /\ Done(c) => wf[c].calls >= 1

\* A hit on an entry that has aged, but less than the TTL.
C2_Witness ==
    \E c \in Callers :
        /\ Done(c) /\ result[c].path = "hit" /\ wf[c].calls = 0
        /\ wf[c].started - Loaded(c)[wf[c].key].fetched_at[1] > 0

\* The fetcher of c's workflow has returned.
FetcherReturned(c) == wf[c].calls > 0 /\ wf[c].pc # "request"

\* C3: transient answers on the first n <= 2 attempts and then a success
\* make n+1 calls with sleeps of 1 s, then 2 s, between them; a transient
\* condition that persists ends the fetcher after exactly 3 calls with an
\* "after retries" error; the cache file is written only once a workflow has
\* got a successful answer, never during or after failed attempts.
C3_RetryBackoff ==
    \A c \in Callers :
        /\ wf[c].calls <= MAX_RETRIES
        /\ wf[c].sleeps = [a \in 1..Len(wf[c].sleeps) |-> 2 ^ (a - 1)]
        /\ (FetcherReturned(c) /\ wf[c].last = "ok") =>
                /\ wf[c].transients <= 2
                /\ wf[c].calls = wf[c].transients + 1
                /\ Len(wf[c].sleeps) = wf[c].transients
                /\ wf[c].fetched.success
        /\ (FetcherReturned(c) /\ wf[c].last \in Transient) =>
                /\ wf[c].calls = 3
                /\ wf[c].transients = 3
                /\ wf[c].sleeps = <<1, 2>>
                /\ ~wf[c].fetched.success
                /\ wf[c].fetched.data = ExhaustedError(wf[c].last)
        /\ (wf[c].kind # "none" /\ store[FileOf(wf[c].kind)] # Loaded(c)) =>
                /\ wf[c].last = "ok"
                /\ Done(c)

\* Two transient answers, then a success whose payload reached the file.
C3_Witness ==
    \E c \in Callers :
        /\ Done(c) /\ wf[c].last = "ok" /\ wf[c].transients = 2
        /\ wf[c].calls = 3 /\ wf[c].sleeps = <<1, 2>>
        /\ result[c].path = "fresh"
        /\ store[FileOf(wf[c].kind)] # Loaded(c)

\* The upstream payload of c's workflow carries an application-level error code.
HasErrorCode(c) ==
    /\ wf[c].last = "ok"
    /\ wf[c].fetched.data.shape = "dict"
    /\ Get(wf[c].fetched.data.v, "cod") \notin {"None", "int200", "str200"}

\* C4 (as claimed): on a non-transient failure - the application-level error
\* code of an HTTP-200 payload - every workflow of every data category makes
\* one upstream call for it, surfaces the error and leaves its cache file
\* unchanged.
C4_NonTransientSurfaced ==
    \A c \in Callers :
        (Done(c) /\ HasErrorCode(c)) =>
            /\ wf[c].calls = wf[c].transients + 1
            /\ IsError(result[c]) \/ result[c].status = "raised"
            /\ store[FileOf(wf[c].kind)] = Loaded(c)

C6_FreshOverwrites ==
    \A c \in Callers :
        (Done(c) /\ result[c].path = "fresh") =>
            /\ wf[c].key \in DOMAIN store[FileOf(wf[c].kind)]
            /\ store[FileOf(wf[c].kind)][wf[c].key] =
                    [fetched_at |-> <<result[c].at>>, data |-> result[c].value]

\* A fresh fetch replaced an older entry that held the same payload.
C6_Witness ==
    \E c \in Callers :
        /\ Done(c) /\ result[c].path = "fresh" /\ HadEntry(c)
        /\ Loaded(c)[wf[c].key].data = result[c].value
        /\ Loaded(c)[wf[c].key].fetched_at # <<result[c].at>>
        /\ store[FileOf(wf[c].kind)][wf[c].key].fetched_at = <<result[c].at>>

\* C7: once a workflow has stored p under k, a workflow call for k started
\* less than 3 hours later, with no write to k in between, returns exactly p.
C7_RoundTrip ==
    \A c \in Callers :
        (Done(c) /\ wf[c].prior # <<>>
            /\ wf[c].started - wf[c].prior[1].t < TTL_MINUTES) =>
                /\ result[c].status = "returned"
                /\ result[c].value = wf[c].prior[1].p

\* p is returned for k after another key of the same file was written.
C7_Witness ==
    \E c \in Callers :
        /\ Done(c) /\ wf[c].prior # <<>>
        /\ wf[c].started - wf[c].prior[1].t < TTL_MINUTES
        /\ wf[c].started > wf[c].prior[1].t
        /\ result[c].value = wf[c].prior[1].p
        /\ \E k2 \in DOMAIN puts : k2 # wf[c].key /\ puts[k2].t >= wf[c].prior[1].t

-----------------------------------------------------------------------------
(* The scheduler, its management operations and its polling threads *)

\* The process has been started at 07:59 with the user table an earlier run
\* left; no job is registered and no thread runs before start_scheduler.
InitSched ==
    /\ clock = AtMinutes(T0759)
    /\ focus = "current"
    /\ store = [f \in Files |-> EmptyTable]
    /\ wf = [c \in Callers |-> IdleWf]
    /\ result = [c \in Callers |-> NoResult]
    /\ runs = 0
    /\ puts = EmptyTable
    /\ users \in InitialUsers
    /\ jobs = <<>>
    /\ is_running = FALSE
    /\ threads = <<>>
    /\ attempts = <<>>
    /\ deliveries = <<>>
    /\ occ = <<>>
    /\ ops = 0
    /\ lastOp = NoOp
    /\ SideIdle
    /\ AuxIdle

NextSched ==
    \/ \E u \in UserIds : handle_start(u)
    \/ \E u \in UserIds : toggle_notifications(u)
    \/ \E u \in UserIds : \E times \in TimesInputs : process_notification_times_input(u, times)
    \/ \E u \in UserIds : \E parts \in FixedInputs : process_fixed_time_input(u, parts)
    \/ \E u \in UserIds : \E r \in RegularInputs : handle_regular_command(u, r[1], r[2], r[3])
    \/ \E u \in UserIds : Reschedule(u)
    \/ start_scheduler
    \/ stop_scheduler
    \/ \E i \in 1..MaxThreads : LoopStep(i)
    \/ \E i \in 1..MaxThreads : RunJob(i, "sent")
    \/ \E i \in 1..MaxThreads : JobDone(i)
    \/ MinutePasses

SpecSched == InitSched /\ [][NextSched]_vars

-----------------------------------------------------------------------------
(* Properties of the scheduler (checked under SpecSched) *)

\* C8: for every enabled user u and every time t that stays among u's
\* persisted times, today's occurrence of t while the loop is running leads
\* to exactly one call of send_weather_notification for u: at most one at
\* any moment, and exactly one once a poll made after the clock reached t
\* has completed, whatever reconfiguration happened in between.
C8_ExactlyOncePerOccurrence ==
    \A p \in DOMAIN occ :
        /\ Count(p) <= 1
        /\ (occ[p] = "polled") => (Count(p) = 1)

\* The tags of a job list, in order.
Tags(js) == [k \in 1..Len(js) |-> js[k].tag]

\* The persisted times of a user (none for an unknown user).
TimesOf(user_id) ==
    IF get_user_data(users, user_id) = <<>> THEN <<>>
    ELSE get_user_data(users, user_id)[1].notification_times

EnabledUser(user_id) ==
    /\ get_user_data(users, user_id) # <<>>
    /\ get_user_data(users, user_id)[1].notifications_enabled

\* The times up to the first one that Job.at rejects.
RECURSIVE AcceptedPrefix(_)
AcceptedPrefix(times) ==
    IF times = <<>> THEN <<>>
    ELSE IF AtAccepts(Head(times))
         THEN <<Head(times)>> \o AcceptedPrefix(Tail(times))
         ELSE <<>>

\* The second of two reschedule_user_notifications(u) calls in a row, made
\* with the persisted settings of u as they were at the first, has returned.
RescheduledTwice == lastOp.name = "reschedule" /\ lastOp.n = 2

C10_RemoveOnlyOwnJobs ==
    (lastOp.name = "reschedule") =>
        /\ \A k \in 1..Len(lastOp.mid) : lastOp.mid[k].user # lastOp.user
        /\ SelectSeq(lastOp.mid, LAMBDA job : job.user # lastOp.user) = lastOp.others

\* The jobs of user 1 removed on disabling it, while user 11 keeps its jobs.
C10_Witness ==
    /\ lastOp.name = "reschedule"
    /\ lastOp.user = 1
    /\ lastOp.had
    /\ ~EnabledUser(1)
    /\ \E k \in 1..Len(lastOp.others) : lastOp.others[k].user = 11
    /\ JobsOf(jobs, 1) = <<>>
    /\ JobsOf(jobs, 11) # <<>>

-----------------------------------------------------------------------------
(* add_regular_notification called once, on a table an earlier run left *)

\* Hours and intervals passed to add_regular_notification: the ranges the
\* spec allows and the values next to them.
HourInputs == (0 - 1)..24

IntervalInputs == 0..13

ValidRegular(start_hour, end_hour, interval_hours) ==
    /\ start_hour \in 0..23 /\ end_hour \in 0..23
    /\ start_hour < end_hour
    /\ interval_hours \in 1..12

RegularTables ==
    { << [user_id |-> 1, notifications_enabled |-> FALSE,
          notification_times |-> <<T0800, T1800>>] >>,
      << [user_id |-> 1, notifications_enabled |-> TRUE,
          notification_times |-> <<T0801>>],
         [user_id |-> 11, notifications_enabled |-> TRUE,
          notification_times |-> <<T0800, T1800>>] >> }

InitRegular ==
    /\ clock = AtMinutes(T0759)
    /\ focus = "current"
    /\ store = [f \in Files |-> EmptyTable]
    /\ wf = [c \in Callers |-> IdleWf]
    /\ result = [c \in Callers |-> NoResult]
    /\ runs = 0
    /\ puts = EmptyTable
    /\ users \in RegularTables
    /\ jobs = schedule_notifications(users, {}, clock)
    /\ is_running = FALSE
    /\ threads = <<>>
    /\ attempts = <<>>
    /\ deliveries = <<>>
    /\ occ = <<>>
    /\ ops = 0
    /\ lastOp = NoOp
    /\ SideIdle
    /\ AuxIdle

\* notification_scheduler.add_regular_notification(user_id, start_hour,
\* end_hour, interval_hours), the first management call of the run.
add_regular_call(user_id, start_hour, end_hour, interval_hours) ==
    LET r == add_regular_notification(users, jobs, HeldIds(threads), user_id,
                                      start_hour, end_hour, interval_hours, clock)
    IN  /\ ops = 0
        /\ ops' = ops + 1
        /\ users' = r.users
        /\ jobs' = r.jobs
        /\ lastOp' = [name |-> "add_regular", user |-> user_id,
                      args |-> <<start_hour, end_hour, interval_hours>>,
                      ok |-> r.ok, usersBefore |-> users, jobsBefore |-> Strip(jobs)]
        /\ UNCHANGED <<clock, is_running, threads, attempts, deliveries, occ, cacheVars, sideVars, auxVars>>

NextRegular ==
    \E u \in UserIds : \E s, e \in HourInputs : \E i \in IntervalInputs :
        add_regular_call(u, s, e, i)

SpecRegular == InitRegular /\ [][NextRegular]_vars

\* add_regular_notification has returned from a call for a known user.
RegularCalled ==
    lastOp.name = "add_regular" /\ HasUser(lastOp.usersBefore, lastOp.user)

\* "HH:00" of an hour 0..23.
HourString(h) == <<DigitChars[(h \div 10) + 1], DigitChars[(h % 10) + 1], ":", "0", "0">>

\* C11: for start < end in 0..23 and an interval in 1..12,
\* add_regular_notification persists for the user the list "HH:00" of the
\* hours start, start+interval, ... up to end, in order, with enabled true,
\* and leaves the user exactly one job per listed time; (10, 22, 2) gives
\* the seven times 10:00 .. 22:00 and (9, 18, 3) gives 09:00, 12:00, 15:00,
\* 18:00.
C11_RegularTimes ==
    (RegularCalled /\ ValidRegular(lastOp.args[1], lastOp.args[2], lastOp.args[3])) =>
        LET u == lastOp.user
            count == ((lastOp.args[2] - lastOp.args[1]) \div lastOp.args[3]) + 1
            expected == [k \in 1..count |->
                            HourString(lastOp.args[1] + (k - 1) * lastOp.args[3])]
        IN  /\ lastOp.ok
            /\ EnabledUser(u)
            /\ TimesOf(u) = expected
            /\ Tags(JobsOf(jobs, u)) = [k \in 1..count |-> TagOf(u, expected[k])]
            /\ (lastOp.args = <<10, 22, 2>>) =>
                   (TimesOf(u) = <<HourString(10), HourString(12), HourString(14),
                                   HourString(16), HourString(18), HourString(20),
                                   HourString(22)>>)
            /\ (lastOp.args = <<9, 18, 3>>) =>
                   (TimesOf(u) = << <<"0", "9", ":", "0", "0">>, <<"1", "2", ":", "0", "0">>,
                                    <<"1", "5", ":", "0", "0">>, T1800 >>)

\* (10, 22, 2) for a user that was disabled and had no job.
C11_Witness ==
    /\ RegularCalled
    /\ lastOp.args = <<10, 22, 2>>
    /\ ~get_user_data(lastOp.usersBefore, lastOp.user)[1].notifications_enabled
    /\ Len(JobsOf(jobs, lastOp.user)) = 7

\* C12: add_regular_notification called with start >= end, an hour outside
\* 0..23 or an interval outside 1..12 reports failure and leaves the
\* persisted table and the registered jobs as they were.
C12_InvalidRegularRejected ==
    (RegularCalled /\ ~ValidRegular(lastOp.args[1], lastOp.args[2], lastOp.args[3])) =>
        /\ ~lastOp.ok
        /\ users = lastOp.usersBefore
        /\ Strip(jobs) = lastOp.jobsBefore

-----------------------------------------------------------------------------
(* The polling loop with deliveries that fail *)

T0802 == <<"0", "8", ":", "0", "2">>

\* Tables with several jobs due in the same minute.
DeliverTables ==
    { << [user_id |-> 1, notifications_enabled |-> TRUE,
          notification_times |-> <<T0800, T0801>>],
         [user_id |-> 11, notifications_enabled |-> TRUE,
          notification_times |-> <<T0800>>] >>,
      << [user_id |-> 1, notifications_enabled |-> TRUE,
          notification_times |-> <<T0801, T0802>>],
         [user_id |-> 11, notifications_enabled |-> TRUE,
          notification_times |-> <<T0801, T0802>>] >> }

InitDeliver ==
    /\ clock = AtMinutes(T0759)
    /\ focus = "current"
    /\ store = [f \in Files |-> EmptyTable]
    /\ wf = [c \in Callers |-> IdleWf]
    /\ result = [c \in Callers |-> NoResult]
    /\ runs = 0
    /\ puts = EmptyTable
    /\ users \in DeliverTables
    /\ jobs = <<>>
    /\ is_running = FALSE
    /\ threads = <<>>
    /\ attempts = <<>>
    /\ deliveries = <<>>
    /\ occ = <<>>
    /\ ops = 0
    /\ lastOp = NoOp
    /\ SideIdle
    /\ AuxIdle

NextDeliver ==
    \/ start_scheduler
    \/ \E i \in 1..MaxThreads : LoopStep(i)
    \/ \E i \in 1..MaxThreads : \E outcome \in DeliveryOutcomes : RunJob(i, outcome)
    \/ \E i \in 1..MaxThreads : JobDone(i)
    \/ MinutePasses

SpecDeliver == InitDeliver /\ [][NextDeliver]_vars

\* The delivery of occurrence p failed: no message was handed to the bot.
Failed(p) == p \in DOMAIN deliveries /\ ~deliveries[p].sent

\* C13: when a poll that found several jobs due has completed, every one of
\* them has been dispatched, also when the delivery of another one failed
\* (no city, fetch error, an exception of the lookup or of send_message);
\* the loop thread stays alive and its next poll is at most a minute away.
C13_FailureIsolated ==
    /\ \A p \in DOMAIN occ :
          (occ[p] = "polled") => (Count(p) >= 1)
    /\ \A p \in DOMAIN deliveries : \A q \in DOMAIN occ :
          (Failed(p) /\ q # p /\ q[2] = p[2] /\ occ[q] = "polled") => (q \in DOMAIN deliveries)
    /\ \A i \in 1..Len(threads) :
          /\ threads[i].pc # "dead"
          /\ threads[i].wake <= clock + 1

\* At 08:01 the send_message of user 1 raised, user 11 still got its
\* message in that poll, and the poll of 08:02 delivered again.
C13_Witness ==
    /\ <<1, AtMinutes(T0801)>> \in DOMAIN deliveries
    /\ deliveries[<<1, AtMinutes(T0801)>>].outcome = "send_raises"
    /\ <<11, AtMinutes(T0801)>> \in DOMAIN deliveries
    /\ deliveries[<<11, AtMinutes(T0801)>>].sent
    /\ <<1, AtMinutes(T0802)>> \in DOMAIN deliveries

-----------------------------------------------------------------------------
(* Free-text place queries of the bot's request paths *)

\* Most candidates a lookup returns here (the geocoding URL says limit=5).
MaxCandidates == 3

\* Requests made in one behaviour.
MaxRequests == 2

\* get_cities_list(city): the upstream call failed, or answered with
\* `count` candidates.  The candidates are told apart by their position.
get_cities_list(success, count) ==
    IF ~success THEN [error |-> "search failed"]
    ELSE IF count = 0 THEN [error |-> "city not found"]
    ELSE [cities |-> count]

HasError(data) == "error" \in DOMAIN data

WeatherTypes == {"current", "forecast", "hourly", "air", "set_city"}

\* The place a request went on with: candidate `index` of `candidates`,
\* taken by the code ("auto"), by the user's select_city_<i> button
\* ("selected") or by the number typed at the console of the bot process.
Served(path, weather_type, candidates, index, how) ==
    << [path |-> path, weather_type |-> weather_type, candidates |-> candidates,
        index |-> index, how |-> how] >>

Request(newSelection, newServed) ==
    /\ ops < MaxRequests
    /\ ops' = ops + 1
    /\ city_selection_data' = newSelection
    /\ served' = newServed
    /\ UNCHANGED <<clock, users, jobs, is_running, threads, attempts, deliveries,
                   occ, lastOp, cacheVars, currency_file, currency_log, auxVars>>

\* A text message that is no command: the weather of the first candidate.
handle_text_message(user_id, success, count) ==
    LET cities_data == get_cities_list(success, count)
    IN  Request(city_selection_data,
                [served EXCEPT ![user_id] =
                    IF HasError(cities_data) THEN <<>>
                    ELSE Served("text", "current", cities_data.cities, 1, "auto")])

\* handle_city_search: one candidate is used at once, several are stored in
\* city_selection_data and shown as buttons.
handle_city_search(selection, user_id, weather_type, success, count) ==
    LET cities_data == get_cities_list(success, count)
    IN  IF HasError(cities_data)
        THEN [selection |-> selection, served |-> <<>>]
        ELSE IF cities_data.cities = 1
        THEN [selection |-> selection,
              served |-> Served("search", weather_type, 1, 1, "auto")]
        ELSE [selection |-> [selection EXCEPT ![user_id] =
                                << [weather_type |-> weather_type,
                                    cities |-> cities_data.cities] >>],
              served |-> <<>>]

\* /weather, /forecast, /hourly, /air with a city.
handle_weather_command(user_id, weather_type, success, count) ==
    LET r == handle_city_search(city_selection_data, user_id, weather_type, success, count)
    IN  /\ weather_type # "set_city"
        /\ Request(r.selection, [served EXCEPT ![user_id] = r.served])

\* /setcity with a city: an empty selection is stored before the search.
handle_setcity_command(user_id, success, count) ==
    LET empty == [city_selection_data EXCEPT ![user_id] =
                     << [weather_type |-> "set_city", cities |-> 0] >>]
        r == handle_city_search(empty, user_id, "set_city", success, count)
    IN  Request(r.selection, [served EXCEPT ![user_id] = r.served])

\* The callback select_city_<city_index> of a candidate button.
select_city(user_id, city_index) ==
    LET selection_data == city_selection_data[user_id]
    IN  IF selection_data # <<>> /\ city_index < selection_data[1].cities
        THEN Request([city_selection_data EXCEPT ![user_id] = <<>>],
                     [served EXCEPT ![user_id] =
                         Served("search", selection_data[1].weather_type,
                                selection_data[1].cities, city_index + 1, "selected")])
        ELSE Request(city_selection_data, [served EXCEPT ![user_id] = <<>>])

cancel_city_selection(user_id) ==
    Request([city_selection_data EXCEPT ![user_id] = <<>>],
            [served EXCEPT ![user_id] = <<>>])

\* The place lookup of a scheduled delivery: get_weather_by_city of the
\* stored city name, whose get_coordinates_by_city asks the console of the
\* bot process when the lookup has several candidates.
scheduled_lookup(user_id, success, count, typed) ==
    /\ typed \in 1..count
    /\ Request(city_selection_data,
               [served EXCEPT ![user_id] =
                   IF ~success THEN <<>>
                   ELSE IF count > 1 THEN Served("scheduled", "current", count, typed, "console")
                   ELSE Served("scheduled", "current", 1, 1, "auto")])

InitResolve ==
    /\ clock = 0
    /\ focus = "current"
    /\ store = [f \in Files |-> EmptyTable]
    /\ wf = [c \in Callers |-> IdleWf]
    /\ result = [c \in Callers |-> NoResult]
    /\ runs = 0
    /\ puts = EmptyTable
    /\ SchedulerIdle
    /\ SideIdle
    /\ AuxIdle

NextResolve ==
    \/ \E u \in UserIds : \E ok \in BOOLEAN : \E n \in 0..MaxCandidates :
          handle_text_message(u, ok, n)
    \/ \E u \in UserIds : \E t \in WeatherTypes : \E ok \in BOOLEAN : \E n \in 0..MaxCandidates :
          handle_weather_command(u, t, ok, n)
    \/ \E u \in UserIds : \E ok \in BOOLEAN : \E n \in 0..MaxCandidates :
          handle_setcity_command(u, ok, n)
    \/ \E u \in UserIds : \E i \in 0..MaxCandidates : select_city(u, i)
    \/ \E u \in UserIds : cancel_city_selection(u)
    \/ \E u \in UserIds : \E ok \in BOOLEAN : \E n \in 1..MaxCandidates : \E i \in 1..MaxCandidates :
          scheduled_lookup(u, ok, n, i)

SpecResolve == InitResolve /\ [][NextResolve]_vars

\* C14: a request whose place lookup gave more than one candidate never
\* goes on with a candidate the code picked: the candidate it uses was
\* selected from the list shown (a button of the chat, or the number typed
\* at the console); the code picks only a single candidate.
C14_NoAutomaticChoice ==
    \A u \in UserIds :
        (served[u] # <<>> /\ served[u][1].candidates > 1) => (served[u][1].how # "auto")

-----------------------------------------------------------------------------
(* Place lookups that find nothing *)

\* The errors a resolver returns when the upstream call itself failed.
FailureErrors ==
    { ExhaustedError(st) : st \in Transient }
    \cup { [error |-> "Request failed"], get_cities_list(FALSE, 0) }

\* The geocoding call of c's finished workflow succeeded with an empty list.
NoCandidate(c) ==
    /\ Done(c)
    /\ wf[c].kind = "coords_by_city"
    /\ wf[c].fetched.success
    /\ PyLen(wf[c].fetched.data.v) = 0

\* C15: a geocoding call that succeeds with zero candidates makes the
\* resolver return a not-found error, different from every error it returns
\* for a network failure, and leaves the geocoding file as the workflow
\* loaded it, with no entry added for the query; get_cities_list, which
\* keeps no store, also answers the two cases with different errors.
C15_NotFoundNotStored ==
    /\ \A c \in Callers :
          NoCandidate(c) =>
              /\ IsError(result[c])
              /\ result[c].value = [error |-> "City not found or geocoding error"]
              /\ result[c].value \notin FailureErrors
              /\ store[FileOf(wf[c].kind)] = Loaded(c)
              /\ (~HadEntry(c)) => (wf[c].key \notin DOMAIN store[FileOf(wf[c].kind)])
    /\ HasError(get_cities_list(TRUE, 0))
    /\ get_cities_list(TRUE, 0) \notin FailureErrors

\* A lookup of a name the file has no entry for found no candidate.
C15_Witness ==
    \E c \in Callers : NoCandidate(c) /\ ~HadEntry(c) /\ IsError(result[c])

-----------------------------------------------------------------------------
(* The job registry against the persisted table *)

\* C16: whatever management operations have completed (toggle, new times,
\* /regular, reschedule_user_notifications, schedule_notifications through
\* the fixed-time input, start_scheduler, stop_scheduler), every registered
\* job belongs to a user whose persisted notifications_enabled is true.
C16_NoJobForDisabled ==
    \A k \in 1..Len(jobs) : EnabledUser(jobs[k].user)

\* The scheduler runs, user 1 is disabled with times in the table and has
\* no job, and user 11 has its jobs.
C16_Witness ==
    /\ is_running
    /\ ops >= 2
    /\ HasUser(users, 1)
    /\ ~EnabledUser(1)
    /\ TimesOf(1) # <<>>
    /\ JobsOf(jobs, 1) = <<>>
    /\ JobsOf(jobs, 11) # <<>>

\* user_manager.delete_user(user_id): the user's record leaves the table;
\* the scheduler is not told.
delete_user(user_id) ==
    /\ HasUser(users, user_id)
    /\ Manage(SelectSeq(users, LAMBDA r : r.user_id # user_id),
              jobs, is_running, threads, NoOp)

\* The management operations, with delete_user among them.
NextTable ==
    \/ \E u \in UserIds : handle_start(u)
    \/ \E u \in UserIds : toggle_notifications(u)
    \/ \E u \in UserIds : \E times \in TimesInputs : process_notification_times_input(u, times)
    \/ \E u \in UserIds : \E parts \in FixedInputs : process_fixed_time_input(u, parts)
    \/ \E u \in UserIds : \E r \in RegularInputs : handle_regular_command(u, r[1], r[2], r[3])
    \/ \E u \in UserIds : Reschedule(u)
    \/ \E u \in UserIds : delete_user(u)
    \/ start_scheduler
    \/ stop_scheduler

SpecTable == InitSched /\ [][NextTable]_vars

\* C17: while the scheduler is started, after every completed management
\* operation the registered jobs are the ones the persisted table gives:
\* each enabled user has one job per entry of its notification_times, tagged
\* with that entry, and nobody else has a job (not a deleted user, not a
\* removed time).
C17_JobsMatchTable ==
    is_running =>
        \A u \in UserIds :
            LET expected == IF EnabledUser(u) THEN TimesOf(u) ELSE <<>>
                mine == JobsOf(jobs, u)
            IN  /\ Len(mine) = Len(expected)
                /\ {mine[k].tag : k \in 1..Len(mine)}
                     = {TagOf(u, expected[k]) : k \in 1..Len(expected)}

-----------------------------------------------------------------------------
(* Stopping the scheduler *)

\* The scheduler started and stopped (signal_handler, the end of main) with
\* no other management operation in between.
NextStop ==
    \/ start_scheduler
    \/ stop_scheduler
    \/ \E i \in 1..MaxThreads : LoopStep(i)
    \/ \E i \in 1..MaxThreads : \E outcome \in DeliveryOutcomes : RunJob(i, outcome)
    \/ \E i \in 1..MaxThreads : JobDone(i)
    \/ MinutePasses

SpecStop == InitDeliver /\ [][NextStop]_vars

\* stop_scheduler has been called and start_scheduler has not been since.
Stopped == ~is_running /\ threads # <<>>

\* C18: once stop_scheduler has been called, and until a later
\* start_scheduler, no job is registered, and no call of
\* send_weather_notification has begun after the stop (a delivery under way
\* at the stop may finish).
C18_QuietAfterStop ==
    Stopped =>
        /\ jobs = <<>>
        /\ \A p \in DOMAIN deliveries : ~deliveries[p].stopped

-----------------------------------------------------------------------------
(* currency.py: the stored exchange rates and their update *)

FAVORITE_CURRENCY == <<"USD", "EUR", "GBP", "CNY", "RUB">>

\* update_currency_rates calls made in one behaviour.
MaxUpdates == 2

\* Seconds between a fetch and the time_next_update_unix of its answer.
UpdatePeriod == 2

\* Seconds the clock moves in one behaviour.
MaxSeconds == 3

\* The clock at the start (time.time() is never 0).
StartTime == 10

\* An entry of the file: the JSON object the API answered with, with or
\* without time_next_update_unix, or null (get_currency_rate returned None).
Null == [kind |-> "null"]

Answer(next, version) == [kind |-> "data", next |-> next, version |-> version]

\* What one get_currency_rate call can meet.
FetchOutcomes == {"ok", "api_error", "http_error", "raises"}

\* get_currency_rate: the value it returns (no value when requests raises).
get_currency_rate(outcome, now) ==
    CASE outcome = "ok" -> Answer(<<now + UpdatePeriod>>, now)
      [] outcome = "api_error" -> Answer(<<>>, now)
      [] OTHER -> Null

\* load_currency_data(): no file reads as None.
load_currency_data(file) == IF file = <<>> THEN <<>> ELSE file[1]

\* needs_currency_update that asks for the update a second early.
needs_currency_update_early(file, currency_code, now) ==
    LET currency_data == load_currency_data(file)
    IN  IF DOMAIN currency_data = {} \/ currency_code \notin DOMAIN currency_data
        THEN "yes"
        ELSE LET currency_info == currency_data[currency_code]
             IN  IF currency_info.kind = "null" THEN "raises"
                 ELSE LET next_update_unix == IF currency_info.next = <<>> THEN 0
                                              ELSE currency_info.next[1]
                      IN  IF next_update_unix = 0 THEN "yes"
                          ELSE IF now + 1 >= next_update_unix THEN "yes" ELSE "no"

\* needs_currency_update(currency_code): "yes", "no", or "raises" (the
\* entry is null and .get is called on None).
needs_currency_update(file, currency_code, now) ==
    LET currency_data == load_currency_data(file)
    IN  IF DOMAIN currency_data = {} \/ currency_code \notin DOMAIN currency_data
        THEN "yes"
        ELSE LET currency_info == currency_data[currency_code]
             IN  IF currency_info.kind = "null" THEN "raises"
                 ELSE LET next_update_unix == IF currency_info.next = <<>> THEN 0
                                              ELSE currency_info.next[1]
                      IN  IF next_update_unix = 0 THEN "yes"
                          ELSE IF now >= next_update_unix THEN "yes" ELSE "no"

\* The loop of update_currency_rates from the k-th favourite currency on:
\* the rates collected, the currencies fetched, and whether an exception
\* ended the loop.  Every fetch succeeds except the one for the currency at
\* position failAt, which meets `failure`.
RECURSIVE UpdateLoop(_, _, _, _, _, _, _)
UpdateLoop(file, now, k, all_rates, fetched, failAt, failure) ==
    IF k > Len(FAVORITE_CURRENCY)
    THEN [all_rates |-> all_rates, fetched |-> fetched, raised |-> FALSE]
    ELSE LET currency == FAVORITE_CURRENCY[k]
             needs_update == needs_currency_update(file, currency, now)
             outcome == IF k = failAt THEN failure ELSE "ok"
             currency_data == load_currency_data(file)
         IN  IF needs_update = "raises"
             THEN [all_rates |-> all_rates, fetched |-> fetched, raised |-> TRUE]
             ELSE IF needs_update = "yes"
             THEN IF outcome = "raises"
                  THEN [all_rates |-> all_rates, fetched |-> fetched \cup {currency},
                        raised |-> TRUE]
                  ELSE UpdateLoop(file, now, k + 1,
                                  [c \in DOMAIN all_rates \cup {currency} |->
                                      IF c = currency THEN get_currency_rate(outcome, now)
                                      ELSE all_rates[c]],
                                  fetched \cup {currency}, failAt, failure)
             ELSE UpdateLoop(file, now, k + 1,
                             IF currency \in DOMAIN currency_data
                             THEN [c \in DOMAIN all_rates \cup {currency} |->
                                      IF c = currency THEN currency_data[currency]
                                      ELSE all_rates[c]]
                             ELSE all_rates,
                             fetched, failAt, failure)

\* update_currency_rates(): the loop, then save_to_file(all_rates), which
\* reports a failed write by returning False.
update_currency_rates(failAt, failure, writable) ==
    LET r == UpdateLoop(currency_file, clock, 1, <<>>, {}, failAt, failure)
    IN  /\ ops < MaxUpdates
        /\ ops' = ops + 1
        /\ currency_file' = IF r.raised \/ ~writable THEN currency_file
                            ELSE <<r.all_rates>>
        /\ currency_log' = [name |-> "update", before |-> load_currency_data(currency_file),
                            now |-> clock, fetched |-> r.fetched, raised |-> r.raised,
                            saved |-> ~r.raised /\ writable]
        /\ UNCHANGED <<clock, users, jobs, is_running, threads, attempts, deliveries,
                       occ, lastOp, cacheVars, city_selection_data, served, auxVars>>

\* A second passes.
SecondPasses ==
    /\ clock - StartTime < MaxSeconds
    /\ clock' = clock + 1
    /\ currency_log' = NoUpdate
    /\ UNCHANGED <<users, jobs, is_running, threads, attempts, deliveries, occ, ops,
                   lastOp, cacheVars, city_selection_data, served, currency_file, auxVars>>

\* Files left by an earlier run.
InitialCurrencyFiles ==
    { <<>>,
      << [c \in {"USD", "EUR", "GBP", "CNY"} |->
             CASE c = "USD" -> Answer(<<StartTime + 1>>, 0)
               [] c = "EUR" -> Answer(<<StartTime>>, 0)
               [] c = "GBP" -> Answer(<<>>, 0)
               [] OTHER -> Answer(<<StartTime + 2>>, 0)] >> }

InitCurrency ==
    /\ clock = StartTime
    /\ focus = "current"
    /\ store = [f \in Files |-> EmptyTable]
    /\ wf = [c \in Callers |-> IdleWf]
    /\ result = [c \in Callers |-> NoResult]
    /\ runs = 0
    /\ puts = EmptyTable
    /\ SchedulerIdle
    /\ city_selection_data = [u \in UserIds |-> <<>>]
    /\ served = [u \in UserIds |-> <<>>]
    /\ currency_file \in InitialCurrencyFiles
    /\ currency_log = NoUpdate
    /\ AuxIdle

NextCurrency ==
    \/ \E failAt \in 0..Len(FAVORITE_CURRENCY) : \E failure \in FetchOutcomes :
       \E writable \in BOOLEAN :
          update_currency_rates(failAt, failure, writable)
    \/ SecondPasses

SpecCurrency == InitCurrency /\ [][NextCurrency]_vars

\* The entry stored for c when the call began says that the next update
\* is due later than the time of the call.
NotYetDue(c) ==
    /\ c \in DOMAIN currency_log.before
    /\ currency_log.before[c].kind = "data"
    /\ currency_log.before[c].next # <<>>
    /\ currency_log.before[c].next[1] # 0
    /\ currency_log.now < currency_log.before[c].next[1]

Favourites == {FAVORITE_CURRENCY[k] : k \in 1..Len(FAVORITE_CURRENCY)}

\* C19: update_currency_rates fetches a base currency only if the stored
\* data had no entry for it, or an entry without time_next_update_unix, or
\* the time of the call was at or past the stored time_next_update_unix; a
\* currency whose stored instant was still ahead is not fetched, and its
\* entry in the file after the call is the one that was there before.
C19_FetchOnlyWhenDue ==
    (currency_log.name = "update") =>
        \A c \in Favourites :
            /\ (c \in currency_log.fetched) => ~NotYetDue(c)
            /\ NotYetDue(c) =>
                  /\ c \notin currency_log.fetched
                  /\ c \in DOMAIN load_currency_data(currency_file)
                  /\ load_currency_data(currency_file)[c] = currency_log.before[c]

\* A call that fetched EUR (due at the time of the call), skipped USD (due
\* a second later) and wrote the file.
C19_Witness ==
    /\ currency_log.name = "update"
    /\ currency_log.saved
    /\ NotYetDue("USD")
    /\ "EUR" \in currency_log.fetched
    /\ "EUR" \in DOMAIN currency_log.before
    /\ currency_log.before["EUR"].next = <<currency_log.now>>
    /\ "USD" \notin currency_log.fetched

-----------------------------------------------------------------------------
(* The cache workflows on a disk that can fail *)

NextDisk ==
    \/ \E kind \in Kinds : \E subj \in Subjects(kind) : Start("interactive", kind, subj)
    \/ Attempt("interactive")
    \/ \E disk \in DiskOutcomes : Finish("interactive", disk)
    \/ \E disk \in DiskOutcomes : ConsoleChoice("interactive", disk)
    \/ Tick

SpecDisk == InitCache /\ [][NextDisk]_vars

\* c's finished workflow fetched a payload and its write of the file failed.
WriteFailed(c) ==
    /\ Done(c)
    /\ wf[c].fetched.success
    /\ wf[c].disk \in {"open_fails", "dump_fails"}

\* C20: when the upstream fetch succeeded and the write of the cache file
\* failed, the workflow returns the payload it has just fetched, as a fresh
\* result, and raises nothing.
C20_WriteFailureSwallowed ==
    \A c \in Callers :
        WriteFailed(c) =>
            /\ result[c].status = "returned"
            /\ result[c].path = "fresh"
            /\ ~IsError(result[c])
            /\ IF wf[c].kind \in {"current", "air"}
               THEN result[c].value = wf[c].fetched.data.v
               ELSE wf[c].kind = "coords_by_city" =>
                       \E k \in 1..Len(wf[c].fetched.data.v) :
                           result[c].value = filter_local_names(wf[c].fetched.data.v[k])

\* A current-weather fetch returned its payload although the file could
\* not be opened for writing, and the file kept what it had.
C20_Witness ==
    \E c \in Callers :
        /\ WriteFailed(c)
        /\ wf[c].kind = "current"
        /\ wf[c].disk = "open_fails"
        /\ result[c].value = wf[c].fetched.data.v
        /\ store[FileOf(wf[c].kind)] = Loaded(c)

-----------------------------------------------------------------------------
(* The loaders on files that are missing, damaged or unreadable *)

\* What a loader hands to its caller: the exception that left it ("none"
\* when it returned) and what it returned: the file's content, {} or a JSON
\* value that is no object.
LoadResult(raised, value) == [raised |-> raised, value |-> value]

\* open() and json.load() on a file in the given condition: the exception
\* they raise, "none" when they deliver the parsed value.
OpenAndParse(cond) ==
    CASE cond = "missing" -> "FileNotFoundError"
      [] cond = "invalid_json" -> "JSONDecodeError"
      [] cond = "unreadable" -> "PermissionError"
      [] cond = "not_utf8" -> "UnicodeDecodeError"
      [] OTHER -> "none"

ParsedValue(cond) == IF cond = "not_object" THEN "not_object" ELSE "content"

\* weather.load_cache: os.path.exists guards the open, and every exception
\* is caught and printed.
load_cache_file(cond) ==
    IF OpenAndParse(cond) = "none"
    THEN LoadResult("none", ParsedValue(cond))
    ELSE LoadResult("none", "empty")

\* UserManager.load_users: FileNotFoundError and JSONDecodeError are caught,
\* every other exception leaves the method.
load_users(cond) ==
    CASE OpenAndParse(cond) = "none" -> LoadResult("none", ParsedValue(cond))
      [] OpenAndParse(cond) \in {"FileNotFoundError", "JSONDecodeError"} -> LoadResult("none", "empty")
      [] OTHER -> LoadResult(OpenAndParse(cond), "nothing")

\* NotificationScheduler.load_scheduled_notifications: the same two exceptions.
load_scheduled_notifications(cond) ==
    CASE OpenAndParse(cond) = "none" -> LoadResult("none", ParsedValue(cond))
      [] OpenAndParse(cond) \in {"FileNotFoundError", "JSONDecodeError"} -> LoadResult("none", "empty")
      [] OTHER -> LoadResult(OpenAndParse(cond), "nothing")

\* What an operation does with what its loader gave it: a JSON value that
\* is no object has no .get and takes no string key.
UsedAsTable(l, exc) ==
    IF l.raised = "none" /\ l.value = "not_object" THEN LoadResult(exc, "nothing") ELSE l

LoadRecord(name, file, key, l) ==
    [name |-> name, file |-> file, key |-> key, cond |-> file_state[file],
     raised |-> l.raised, empty |-> l.value = "empty"]

FetchedBodies == { [cod |-> "int200", name |-> n] : n \in {"w1", "w2"} }

\* get_weather_by_coordinates whose entry is not usable and whose request
\* succeeds: load_cache, cache[cache_key] = {...}, save_cache.
fetch_current(subj) ==
    LET file == FileOf("current")
        key == KeyOf("current", subj)
        l == UsedAsTable(load_cache_file(file_state["cache"]), "TypeError")
        cache == IF l.value = "content" THEN load_cache(file) ELSE EmptyTable
    IN  /\ focus = file
        /\ runs < MaxRuns
        /\ runs' = runs + 1
        /\ ~(key \in DOMAIN cache /\ is_cache_valid(cache[key], clock))
        /\ load_log' = LoadRecord("get_weather_by_coordinates", "cache", key, l)
        /\ \E data \in FetchedBodies :
              IF l.raised = "none"
              THEN /\ store' = save_cache(WithEntry(cache, key, data, clock), file, "ok")
                   /\ file_state' = [file_state EXCEPT !["cache"] = "valid"]
              ELSE UNCHANGED <<store, file_state>>
        /\ UNCHANGED <<wf, result, clock, focus, puts, schedVars, sideVars, moreVars>>

\* get_user_data(user_id): users = self.load_users(); users.get(str(user_id))
read_user(user_id) ==
    LET l == UsedAsTable(load_users(file_state["users"]), "AttributeError")
    IN  /\ load_log' = LoadRecord("get_user_data", "users", <<>>, l)
        /\ UNCHANGED <<file_state, clock, cacheVars, schedVars, sideVars, moreVars>>

\* add_user(user_id): load_users, users[str(user_id)] = {...}, save_users.
\* str(user_id) in users is false for a JSON array and raises for null or a number.
write_user(user_id) ==
    LET l == UsedAsTable(load_users(file_state["users"]), "TypeError")
        table == IF l.value = "content" THEN users ELSE <<>>
    IN  /\ load_log' = LoadRecord("add_user", "users", <<>>, l)
        /\ IF l.raised = "none"
           THEN /\ users' = add_user(table, user_id)
                /\ file_state' = [file_state EXCEPT !["users"] = "valid"]
           ELSE UNCHANGED <<users, file_state>>
        /\ UNCHANGED <<clock, cacheVars, jobs, is_running, threads, attempts, deliveries,
                       occ, ops, lastOp, sideVars, moreVars>>

\* The stored schedule is loaded and printed.
read_schedule ==
    LET l == load_scheduled_notifications(file_state["schedule"])
    IN  /\ load_log' = LoadRecord("load_scheduled_notifications", "schedule", <<>>, l)
        /\ UNCHANGED <<file_state, clock, cacheVars, schedVars, sideVars, moreVars>>

InitCorrupt ==
    /\ clock = 0
    /\ focus = FileOf("current")
    /\ store \in InitialStores
    /\ wf = [c \in Callers |-> IdleWf]
    /\ result = [c \in Callers |-> NoResult]
    /\ runs = 0
    /\ puts = EmptyTable
    /\ SchedulerIdle
    /\ SideIdle
    /\ file_state \in [StoreFiles -> FileConditions]
    /\ load_log = NoLoad
    /\ MoreIdle

NextCorrupt ==
    \/ \E subj \in Coords : fetch_current(subj)
    \/ \E u \in UserIds : read_user(u)
    \/ \E u \in UserIds : write_user(u)
    \/ read_schedule

SpecCorrupt == InitCorrupt /\ [][NextCorrupt]_vars

\* C21: an operation that loads a cache, schedule or user file which is
\* missing, unreadable or holds invalid content raises nothing and works on
\* an empty table, and after a successful fetch for a key the cache file is
\* readable and holds a valid entry for that key.
C21_DamagedFileReadsAsEmpty ==
    (load_log.name # "none" /\ load_log.cond # "valid") =>
        /\ load_log.raised = "none"
        /\ load_log.empty
        /\ load_log.file = "cache" =>
              /\ file_state["cache"] = "valid"
              /\ load_log.key \in DOMAIN store[FileOf("current")]
              /\ is_cache_valid(store[FileOf("current")][load_log.key], clock)

-----------------------------------------------------------------------------
(* The interactive path and the scheduler thread on one cache file *)

\* A request handler and a scheduled delivery both ask for the current
\* weather; each workflow's load, network calls and save are steps of its
\* own thread, interleaved with the other's.
NextShared ==
    \/ \E c \in Callers : \E subj \in Coords : Start(c, "current", subj)
    \/ \E c \in Callers : Attempt(c)
    \/ \E c \in Callers : Finish(c, "ok")

InitShared == InitCache /\ focus = FileOf("current")

SpecShared == InitShared /\ [][NextShared]_vars

\* c's finished workflow fetched a payload and wrote the file.
Wrote(c) == Done(c) /\ result[c].path = "fresh" /\ ~IsError(result[c]) /\ wf[c].disk = "ok"

\* C22: when the interactive path and the scheduler loop have each completed
\* a successful fetch for different keys of one cache file, both entries are
\* in the file, however their load and save steps interleaved.
C22_NoLostEntry ==
    (/\ Wrote("interactive")
     /\ Wrote("scheduler")
     /\ wf["interactive"].key # wf["scheduler"].key) =>
        /\ wf["interactive"].key \in DOMAIN store[FileOf("current")]
        /\ wf["scheduler"].key \in DOMAIN store[FileOf("current")]

-----------------------------------------------------------------------------
(* A handler's profile update against update_last_activity of the scheduler thread *)

\* The profile updates a handler makes: update_notification_settings with
\* the arguments the handlers pass, and add_user.
ProfileUpdates ==
    { [name |-> "update_notification_settings", enabled |-> en, times |-> ts] :
          en \in BOOLEAN, ts \in {<<>>, <<<<T0801>>>>} }
    \cup { [name |-> "add_user"] }

\* The table the update writes, from the table it loaded.
Updated(table, user_id, op) ==
    IF op.name = "add_user"
    THEN add_user(table, user_id)
    ELSE update_notification_settings(table, user_id, op.enabled, op.times)

\* The method returns before save_users: the user is unknown
\* (update_*) or known already (add_user).
ReturnsEarly(table, user_id, op) ==
    IF op.name = "add_user" THEN HasUser(table, user_id) ELSE ~HasUser(table, user_id)

\* users = self.load_users() of a profile update in a handler thread.
update_load(user_id, op) ==
    /\ pending["handler"].pc = "idle"
    /\ pending' = [pending EXCEPT !["handler"] =
                      [pc |-> "loaded", user |-> user_id, op |-> op, table |-> users]]
    /\ UNCHANGED <<clock, cacheVars, schedVars, sideVars, file_state, load_log, probe>>

\* The rest of the update: the change to the loaded table and save_users.
update_save ==
    LET u == pending["handler"]
    IN  /\ u.pc = "loaded"
        /\ users' = IF ReturnsEarly(u.table, u.user, u.op) THEN users
                    ELSE Updated(u.table, u.user, u.op)
        /\ pending' = [pending EXCEPT !["handler"].pc =
                          IF ReturnsEarly(u.table, u.user, u.op) THEN "refused" ELSE "saved"]
        /\ UNCHANGED <<clock, cacheVars, jobs, is_running, threads, attempts, deliveries, occ,
                       ops, lastOp, sideVars, file_state, load_log, probe>>

\* users = self.load_users() of update_last_activity, which
\* send_weather_notification calls after bot.send_message.
activity_load(user_id) ==
    /\ pending["scheduler"].pc = "idle"
    /\ pending' = [pending EXCEPT !["scheduler"] =
                      [pc |-> "loaded", user |-> user_id, table |-> users]]
    /\ UNCHANGED <<clock, cacheVars, schedVars, sideVars, file_state, load_log, probe>>

\* users[str(user_id)]["last_activity"] = now; save_users(users): the table
\* loaded is written back whole (last_activity is no field of the model's
\* records).  An unknown user ends the method before the write.
activity_save ==
    LET a == pending["scheduler"]
    IN  /\ a.pc = "loaded"
        /\ users' = IF HasUser(a.table, a.user) THEN a.table ELSE users
        /\ pending' = [pending EXCEPT !["scheduler"].pc =
                          IF HasUser(a.table, a.user) THEN "saved" ELSE "refused"]
        /\ UNCHANGED <<clock, cacheVars, jobs, is_running, threads, attempts, deliveries, occ,
                       ops, lastOp, sideVars, file_state, load_log, probe>>

InitProfile ==
    /\ clock = 0
    /\ focus \in Files
    /\ store = [f \in Files |-> EmptyTable]
    /\ wf = [c \in Callers |-> IdleWf]
    /\ result = [c \in Callers |-> NoResult]
    /\ runs = 0
    /\ puts = EmptyTable
    /\ users \in InitialUsers \cup { << [user_id |-> 1, notifications_enabled |-> FALSE,
                                        notification_times |-> <<T0800, T1800>>] >> }
    /\ jobs = <<>>
    /\ is_running = FALSE
    /\ threads = <<>>
    /\ attempts = <<>>
    /\ deliveries = <<>>
    /\ occ = <<>>
    /\ ops = 0
    /\ lastOp = NoOp
    /\ SideIdle
    /\ AuxIdle

NextProfile ==
    \/ \E u \in UserIds : \E op \in ProfileUpdates : update_load(u, op)
    \/ update_save
    \/ \E u \in UserIds : activity_load(u)
    \/ activity_save

SpecProfile == InitProfile /\ [][NextProfile]_vars

\* The handler's update is in the persisted table.
Present(u) ==
    /\ HasUser(users, u.user)
    /\ u.op.name # "add_user" =>
          LET r == get_user_data(users, u.user)[1]
          IN  /\ r.notifications_enabled = u.op.enabled
              /\ u.op.times # <<>> => r.notification_times = u.op.times[1]

\* C23: when a handler's profile update and the scheduler thread's
\* update_last_activity have both written users.json, the handler's update
\* is in the persisted table, however their steps interleaved.
C23_ProfileUpdateKept ==
    (pending["handler"].pc = "saved" /\ pending["scheduler"].pc = "saved") =>
        Present(pending["handler"])

-----------------------------------------------------------------------------
(* Polling threads over starts and stops *)

\* The threads of run_scheduler that have not returned.
LiveThreads == {i \in 1..Len(threads) : threads[i].pc # "dead"}

\* C24: over every sequence of start_scheduler and stop_scheduler calls, at
\* most one polling loop thread is live at any time.
C24_OneLoopThread == Cardinality(LiveThreads) <= 1

-----------------------------------------------------------------------------
(* A delivery that waits at the console *)

\* send_weather_notification whose get_weather_by_city reaches
\* get_coordinates_by_city with more than one candidate: the job function is
\* inside `while True: int(input(...))` and has sent nothing yet.
RunJobBlocking(i) ==
    /\ i \in 1..Len(threads)
    /\ threads[i].pc = "run"
    /\ LET job == Head(threads[i].queue)
           p == <<job.user, job.at>>
       IN  /\ attempts' = [q \in DOMAIN attempts \cup {p} |->
                              IF q = p THEN Count(p) + 1 ELSE attempts[q]]
           /\ deliveries' = [q \in DOMAIN deliveries \cup {p} |->
                                IF q = p
                                THEN [outcome |-> "waits_console", sent |-> FALSE,
                                      stopped |-> ~is_running]
                                ELSE deliveries[q]]
    /\ threads' = [threads EXCEPT ![i].pc = "input"]
    /\ lastOp' = NoOp
    /\ UNCHANGED <<clock, users, jobs, is_running, occ, ops, cacheVars, sideVars, auxVars>>

\* Somebody types a valid number at the console of the bot process: the
\* lookup goes on and the message is sent.
ConsoleInput(i) ==
    /\ i \in 1..Len(threads)
    /\ threads[i].pc = "input"
    /\ LET job == Head(threads[i].queue)
           p == <<job.user, job.at>>
       IN  deliveries' = [deliveries EXCEPT ![p].sent = TRUE]
    /\ threads' = [threads EXCEPT ![i].pc = "sent"]
    /\ lastOp' = NoOp
    /\ UNCHANGED <<clock, users, jobs, is_running, attempts, occ, ops, cacheVars, sideVars,
                   auxVars>>

\* What the loop thread does on its own.
ThreadStep(i) ==
    \/ LoopStep(i)
    \/ \E outcome \in DeliveryOutcomes : RunJob(i, outcome)
    \/ RunJobBlocking(i)
    \/ JobDone(i)

NextBlock ==
    \/ start_scheduler
    \/ \E i \in 1..MaxThreads : ThreadStep(i)
    \/ \E i \in 1..MaxThreads : ConsoleInput(i)
    \/ MinutePasses

\* A started thread keeps running and time passes; nobody has to type at
\* the console.
SpecBlock ==
    /\ InitDeliver
    /\ [][NextBlock]_vars
    /\ \A i \in 1..MaxThreads : WF_vars(ThreadStep(i))
    /\ WF_vars(MinutePasses)

\* C25: every job the loop thread took in a tick is eventually dispatched
\* and the thread eventually reaches its next tick (its list of taken jobs
\* is worked off), also when a delivery waits for a console selection.
C25_TickCompletes ==
    \A i \in 1..MaxThreads :
        (i <= Len(threads) /\ threads[i].queue # <<>>)
            ~> (i <= Len(threads) /\ threads[i].queue = <<>>)

-----------------------------------------------------------------------------
(* The times persisted for a subscriber *)

NoDuplicate(times) ==
    \A i, j \in 1..Len(times) : times[i] = times[j] => i = j

\* "HH:MM" with two digits each, HH in 00..23 and MM in 00..59.
WellFormed(time_str) ==
    /\ Len(time_str) = 5
    /\ time_str[3] = ":"
    /\ AllDigits(SubSeq(time_str, 1, 2))
    /\ AllDigits(SubSeq(time_str, 4, 5))
    /\ IntOf(SubSeq(time_str, 1, 2)) <= 23
    /\ IntOf(SubSeq(time_str, 4, 5)) <= 59

\* C26: after any sequence of the operations that write a subscriber's
\* times, the persisted notification_times holds no duplicate and only
\* zero-padded HH:MM strings with HH in 00..23 and MM in 00..59.
C26_TimesCanonical ==
    \A k \in 1..Len(users) :
        /\ NoDuplicate(users[k].notification_times)
        /\ \A i \in 1..Len(users[k].notification_times) :
               WellFormed(users[k].notification_times[i])

-----------------------------------------------------------------------------
(* Cache workflows whose read of the file can fail *)

\* open() or json.load() of an existing cache file raises for one call
\* (the file is being rewritten or is locked) and works for the next.
ReadOutcomes == {"ok", "fails"}

NextRead ==
    \/ \E kind \in Kinds : \E subj \in Subjects(kind) : \E read \in ReadOutcomes :
           StartReading("interactive", kind, subj, read)
    \/ Attempt("interactive")
    \/ Finish("interactive", "ok")
    \/ ConsoleChoice("interactive", "ok")
    \/ Tick

SpecRead == InitCache /\ [][NextRead]_vars

\* C27: a key present in a cache file is present after every later step of
\* every workflow on that file, also of a call whose load failed: no
\* workflow removes another key's entry.
C27_KeysStay ==
    [][\A f \in Files : DOMAIN store[f] \subseteq DOMAIN store'[f]]_vars

-----------------------------------------------------------------------------
(* The cache keys *)

\* Coordinates in thousandths of a degree; two pairs are less than a
\* hundredth apart.
KeyCoords == { <<54738, 55972>>, <<54741, 55972>>, <<-22907, -43173>>, <<-4, 0>>, <<4, 0>> }

\* A city argument: <<>> for None, <<s>> for the string s.
KeyCities == { <<>>, << <<>> >>, << <<"U", "f", "a">> >> }

\* `if city:` takes None and "" alike; get_cache_key is given the city as a
\* string with <<>> standing for both.
CityArg(city) == IF city = <<>> THEN <<>> ELSE city[1]

\* The key computations of the workflows, each with the file it keys.
KeyRequests ==
    { [fn |-> "get_coordinates_by_city", file |-> "geocoding", city |-> c, place |-> <<>>] :
          c \in KeyCities }
    \cup { [fn |-> f, file |-> FileOf(f), city |-> <<>>, place |-> <<p>>] :
               f \in {"city_by_coords", "current", "hourly", "daily", "air"}, p \in KeyCoords }

\* cache_key as the workflow of the request computes it.
CacheKeyOf(r) ==
    IF r.fn = "get_coordinates_by_city"
    THEN get_cache_key(CityArg(r.city), <<>>, <<>>)
    ELSE KeyOf(r.fn, r.place[1])

\* Two workflow calls compute their keys.
ComputeKeys(a, b) ==
    /\ probe = NoProbe
    /\ probe' = [name |-> "keys", a |-> a, b |-> b,
                 key_a |-> CacheKeyOf(a), key_b |-> CacheKeyOf(b)]
    /\ UNCHANGED <<clock, cacheVars, schedVars, sideVars, file_state, load_log, pending>>

InitKeys == InitCache /\ focus = FileOf("current") /\ store = [f \in Files |-> EmptyTable]

NextKeys == \E a, b \in KeyRequests : ComputeKeys(a, b)

SpecKeys == InitKeys /\ [][NextKeys]_vars

\* The subject and parameters of a request: what is asked, for which place.
SubjectOf(r) == <<r.fn, r.city, r.place>>

\* C28: within one cache file, requests with distinct (subject, parameters)
\* never get the same key, and identical requests get the identical key.
C28_KeysInjective ==
    probe.name = "keys" =>
        /\ (probe.a.file = probe.b.file /\ SubjectOf(probe.a) # SubjectOf(probe.b))
               => probe.key_a # probe.key_b
        /\ SubjectOf(probe.a) = SubjectOf(probe.b) => probe.key_a = probe.key_b

-----------------------------------------------------------------------------
(* The stored rates after a failed fetch *)

\* 'rates' in currency_info: the answer of a successful request carries
\* rates for every currency and time_next_update_unix, an error answer
\* carries neither; on null the test raises TypeError.
HasRates(currency_info) == currency_info.kind = "data" /\ currency_info.next # <<>>

\* The reverse lookup of convert_currency from the k-th stored base on, in
\* the order of the file: "value", "None", or "raises" at a null entry.
RECURSIVE ReverseLookup(_, _, _)
ReverseLookup(currency_data, to_currency, k) ==
    IF k > Len(FAVORITE_CURRENCY) THEN "None"
    ELSE LET base_currency == FAVORITE_CURRENCY[k]
         IN  IF base_currency \notin DOMAIN currency_data
             THEN ReverseLookup(currency_data, to_currency, k + 1)
             ELSE IF currency_data[base_currency].kind = "null" THEN "raises"
             ELSE IF HasRates(currency_data[base_currency]) /\ to_currency = base_currency
             THEN "value"
             ELSE ReverseLookup(currency_data, to_currency, k + 1)

\* convert_currency(amount, from_currency, to_currency) on the stored data.
convert_currency(file, from_currency, to_currency) ==
    LET currency_data == load_currency_data(file)
    IN  IF DOMAIN currency_data = {} THEN "None"
        ELSE IF from_currency \in DOMAIN currency_data
                /\ currency_data[from_currency].kind = "null"
        THEN "raises"
        ELSE IF from_currency \in DOMAIN currency_data
                /\ HasRates(currency_data[from_currency])
        THEN "value"
        ELSE ReverseLookup(currency_data, to_currency, 1)

\* C29: after an update_currency_rates call, a currency that had stored
\* rates still has a stored entry that is not null, an entry the call did
\* not fetch is the one stored before, and needs_currency_update and
\* convert_currency on the stored data do not raise.
C29_FailedFetchKeepsRates ==
    (currency_log.name = "update") =>
        LET stored == load_currency_data(currency_file)
        IN  /\ \A c \in DOMAIN currency_log.before :
                  /\ c \in DOMAIN stored
                  /\ stored[c].kind # "null"
                  /\ c \notin currency_log.fetched => stored[c] = currency_log.before[c]
            /\ \A c \in Favourites : needs_currency_update(currency_file, c, clock) # "raises"
            /\ \A from_c, to_c \in Favourites :
                  convert_currency(currency_file, from_c, to_c) # "raises"

-----------------------------------------------------------------------------
(* Toggling notifications twice *)

\* The jobs registered for a user, as tag -> number of jobs with that tag.
JobTags(js, user_id) ==
    LET mine == JobsOf(js, user_id)
    IN  [t \in {mine[k].tag : k \in 1..Len(mine)} |->
            Cardinality({k \in 1..Len(mine) : mine[k].tag = t})]

\* History of the toggle button: what was persisted and registered before
\* the first of two presses in a row by the same user.
Toggled(user_id) ==
    LET again == lastOp.name = "toggle" /\ lastOp.user = user_id /\ lastOp.n = 1
    IN  [name |-> "toggle", user |-> user_id,
         n |-> IF again THEN 2 ELSE 1,
         before |-> IF again THEN lastOp.before
                    ELSE [record |-> get_user_data(users, user_id),
                          mine |-> JobTags(jobs, user_id),
                          others |-> Strip(JobsOfOthers(jobs, user_id))]]

\* The "toggle_notifications" button pressed by an existing user.
toggle(user_id) ==
    LET current_status == get_user_data(users, user_id)[1].notifications_enabled
        table1 == update_notification_settings(users, user_id, ~current_status, NoTimes)
    IN  /\ HasUser(users, user_id)
        /\ Manage(table1,
                  reschedule_user_notifications(table1, jobs, HeldIds(threads), user_id, clock),
                  is_running, threads, Toggled(user_id))

\* Tables left by an earlier run of the bot; in one, user 1's times were
\* typed as "8:00,08:01".
ToggleTables ==
    InitialUsers \cup
    { << [user_id |-> 1, notifications_enabled |-> en,
          notification_times |-> ts],
         [user_id |-> 11, notifications_enabled |-> TRUE,
          notification_times |-> <<T0800, T1800>>] >> :
        en \in BOOLEAN, ts \in { <<T0800, T0801>>, <<T800, T0801>> } }

InitToggle ==
    /\ clock = AtMinutes(T0759)
    /\ focus = "current"
    /\ store = [f \in Files |-> EmptyTable]
    /\ wf = [c \in Callers |-> IdleWf]
    /\ result = [c \in Callers |-> NoResult]
    /\ runs = 0
    /\ puts = EmptyTable
    /\ users \in ToggleTables
    /\ jobs = <<>>
    /\ is_running = FALSE
    /\ threads = <<>>
    /\ attempts = <<>>
    /\ deliveries = <<>>
    /\ occ = <<>>
    /\ ops = 0
    /\ lastOp = NoOp
    /\ SideIdle
    /\ AuxIdle

\* bot.py starts the scheduler before it polls for updates, so the button
\* is handled while the scheduler runs.
NextToggle ==
    \/ start_scheduler
    \/ \E u \in UserIds : is_running /\ toggle(u)
    \/ \E i \in 1..MaxThreads : LoopStep(i)
    \/ \E i \in 1..MaxThreads : RunJob(i, "sent")
    \/ \E i \in 1..MaxThreads : JobDone(i)
    \/ MinutePasses

SpecToggle == InitToggle /\ [][NextToggle]_vars

ToggledTwice == lastOp.name = "toggle" /\ lastOp.n = 2

\* C30: after an existing subscriber toggled notifications twice in a row,
\* the persisted flag and times and the subscriber's registered jobs are
\* what they were before the first toggle, and the jobs of the other
\* subscribers are unchanged.
C30_DoubleToggleRestores ==
    ToggledTwice =>
        /\ get_user_data(users, lastOp.user) = lastOp.before.record
        /\ JobTags(jobs, lastOp.user) = lastOp.before.mine
        /\ Strip(JobsOfOthers(jobs, lastOp.user)) = lastOp.before.others

====
